---- MODULE Spec2Model ----
(***************************************************************************)
(* A model of silver_platter's publication workflow (proposal.py, run.py): *)
(* find_existing_proposed, Workspace.__enter__/__exit__, publish_changes,  *)
(* push_changes/push_result, propose_changes and check_proposal_diff,      *)
(* against an abstract version-control engine and hosting provider, and of *)
(* the upload loop of debian/uploader.py.                                  *)
(* Spec and SpecWorkflow are runs of the workflow; SpecFind is             *)
(* find_existing_proposed on any provider state; SpecScope is the scope    *)
(* of one Workspace object; SpecAcquire is Workspace.__enter__ with main   *)
(* moving while it runs; SpecMerge and SpecThreads are merge_conflicts     *)
(* statement by statement, for one caller and for two concurrent ones;     *)
(* SpecUpload is the loop of upload-pending-commits.                       *)
(*                                                                         *)
(* A revision is the set of commits in its ancestry.  A commit is          *)
(* <<author, hunk, text>>: it rewrites one hunk of the tree to one text.   *)
(* One branch pair (main, derived branch of one name and owner) and the    *)
(* proposals between them are modelled.                                    *)
(***************************************************************************)
EXTENDS Integers, Sequences, FiniteSets, TLC

\* ------------------------------------------------------------------ bounds
MaxHunk == 2
MaxProposals == 2
MaxRuns == 2
MaxMainCommits == 1
MaxExits == 2
MaxListing == 3
MaxPackages == 2
MaxPending == 1
MaxAge == 1

\* --------------------------------------------------------------- constants
None == "None"

\* A bug: a fifth mode is accepted.
SUPPORTED_MODES_Lax ==
    {"push", "attempt-push", "propose", "push-derived", "bogus"}

SUPPORTED_MODES == {"push", "attempt-push", "propose", "push-derived"}

Hunks == 1..MaxHunk
Texts == {"fix", "other"}
Root == <<"root", 0, "base">>
Alien == <<"alien", 0, "base">>
ScriptCommits == {<<"script", h, "fix">> : h \in Hunks}
MainCommits == {<<"main", h, t>> : h \in Hunks, t \in Texts}
Commits == {Root, Alien} \cup ScriptCommits \cup MainCommits

Descriptions == {"d1", "d2"}
Messages == {"c1"}
NoCallback == "<no callback>"

\* ---------------------------------------------- version-control primitives
\* graph.is_ancestor(a, b): revision a is in the ancestry of revision b.
is_ancestor(a, b) == a \subseteq b

\* The content of a revision's tree: the hunks its history rewrote.
Tree(rev) == {<<c[2], c[3]>> : c \in rev \ {Root, Alien}}

HunksOf(rev) == {c[2] : c \in rev \ {Root, Alien}}

\* No common ancestor: Merger.from_revision_ids raises UnrelatedBranches.
Unrelated(a, b) == a \cap b = {}

\* Three-way merge of `other` into `this` with their common ancestry as base:
\* a conflict is a hunk both sides rewrote, to different texts.
cooked_conflicts(this, other) ==
    LET base == Tree(this \cap other)
        mine == Tree(this) \ base
        theirs == Tree(other) \ base
    IN {h \in Hunks : \E x \in mine, y \in theirs :
                          x[1] = h /\ y[1] = h /\ x[2] # y[2]}

\* The change set of the merge preview of `other` into the tree of `this`.
iter_changes(this, other) == Tree(other) \ Tree(this)

\* A bug: every push overwrites its target.
PushOutcome_Force(target, local, overwrite) == "ok"

\* Branch.push(target, overwrite): the head the target ends with, or the error.
PushOutcome(target, local, overwrite) ==
    IF is_ancestor(target, local) \/ overwrite THEN "ok" ELSE "DivergedBranches"

\* ---------------------------------------------------------- merge_conflicts
merge_conflicts(main_rev, other_rev) ==
    IF is_ancestor(main_rev, other_rev) THEN FALSE
    ELSE IF Unrelated(main_rev, other_rev) THEN TRUE
    ELSE cooked_conflicts(other_rev, main_rev) # {}

\* ------------------------------------------------------ check_proposal_diff
\* A bug: the test for an empty change set is inverted.
check_proposal_diff_Inverted(other_rev, main_rev) ==
    IF Unrelated(main_rev, other_rev) THEN "UnrelatedBranches"
    ELSE IF iter_changes(main_rev, other_rev) # {} THEN "EmptyMergeProposal"
    ELSE "None"

\* None, or the exception check_proposal_diff raises.
check_proposal_diff(other_rev, main_rev) ==
    IF Unrelated(main_rev, other_rev) THEN "UnrelatedBranches"
    ELSE IF iter_changes(main_rev, other_rev) = {} THEN "EmptyMergeProposal"
    ELSE None

\* ------------------------------------------------------------------- state
VARIABLES
    remote,      \* [main, derived, proposals]: the hosting site
    supportsCM,  \* whether the provider stores proposal commit messages
    pc,          \* "idle" | "found" | "acquired" | "published"
    found,       \* what find_existing_proposed returned to apply_and_publish
    ws,          \* the Workspace object
    pub,         \* the arguments of the last publish_changes/propose_changes
    calls,       \* remote operations and callbacks that call made, in order
    result,      \* what that call returned or raised
    last,        \* the previous run's publication, while nothing changed since
    runs,        \* runs of the workflow completed so far
    hooks,       \* Merger.hooks['merge_file_content'], global to the process
    installed,   \* the hooks the user installed, before any merge_conflicts
    th,          \* each thread's merge_conflicts call: position and locals
    up           \* upload-pending-commits: the position and locals of main()

wvars == <<remote, supportsCM, pc, found, ws, pub, calls, result, last, runs>>

mcvars == <<hooks, installed, th>>

vars == <<remote, supportsCM, pc, found, ws, pub, calls, result, last, runs,
          hooks, installed, th, up>>

Threads == {1, 2}

\* A thread that has not called merge_conflicts; previewed is the hook list
\* its preview ran under.
NotRun == <<"<not run>">>

NoCall == [pc |-> "idle", main |-> {}, other |-> {}, old |-> <<>>,
           ret |-> None, previewed |-> NotRun]

\* No merge_conflicts call is in progress and no custom hook is installed.
NoMerges ==
    /\ hooks = <<>>
    /\ installed = <<>>
    /\ th = [t \in Threads |-> NoCall]

\* upload-pending-commits. A package as main() and prepare_upload_package
\* read it: whether it declares a vcs location, whether its branch opens,
\* whether it has an autopkgtest, whether debian/gbp.conf exists, whether
\* the changelog's version is the one in the archive, whether the archive's
\* version is newer than the changelog's previous upload, the number of
\* revisions since the last uploaded release, whether they are validly
\* signed, the age in days of the youngest, whether the changelog entry is
\* UNRELEASED, whether the maintainer is the QA group, whether it builds.
NoPackage == [vcs |-> TRUE, opens |-> TRUE, testsuite |-> TRUE,
              gbp |-> FALSE, uploaded |-> FALSE, stale |-> FALSE,
              pending |-> 0, signed |-> TRUE, age |-> 0,
              unreleased |-> TRUE, qa |-> FALSE, builds |-> TRUE]

\* The command line of upload-pending-commits.
NoArgs == [dry_run |-> FALSE, diff |-> FALSE, autopkgtest_only |-> FALSE,
          gpg_verification |-> FALSE, min_commit_age |-> 0]

\* main() before it runs: step is its position, i the package the loop is
\* at among n, ops what was done for that package, local the head of the
\* workspace's tree.
NoUpload == [step |-> "idle", i |-> 0, n |-> 0, args |-> NoArgs,
             pkg |-> NoPackage, target_changes |-> None, ops |-> <<>>,
             local |-> {}, ret |-> 0, raised |-> None]

NoBranch == [exists |-> FALSE, head |-> {}]
NoProposal == [kind |-> "none", idx |-> 0, description |-> None,
               commit_message |-> None]
RealProposal(i) == [kind |-> "real", idx |-> i, description |-> None,
                    commit_message |-> None]

NoFound == [resume_branch |-> FALSE, overwrite |-> None, proposal |-> 0,
            listed |-> FALSE,
            refresh |-> FALSE, overwrite_unrelated |-> FALSE]
NoWorkspace == [alive |-> FALSE, resume_branch |-> FALSE, local |-> {},
                main_branch_revid |-> {}, orig_revid |-> {},
                refreshed |-> FALSE, seed |-> None, colo |-> FALSE,
                discarded |-> {}, destroy |-> FALSE, clone |-> "none",
                handed |-> FALSE, releases |-> 0, exits |-> 0,
                given |-> [cached |-> FALSE, resume |-> FALSE]]
NoPub == [call |-> None]
NoResult == [raised |-> None, mode |-> None, proposal |-> NoProposal,
             is_new |-> FALSE]
NoLast == [valid |-> FALSE]


\* --------------------------------------------------- find_existing_proposed
\* A bug: a merged proposal counts as one to resume.
is_open_NotClosed(p) == p.status # "closed"

\* A bug: the test for an open proposal is inverted.
is_open_Inverted(p) == p.status # "open"

is_open(p) == p.status = "open"

\* A bug: a missing derived branch is reported as one not to overwrite.
NoDerivedBranch_NoOverwrite ==
    [resume_branch |-> FALSE, overwrite |-> "False", proposal |-> 0,
     listed |-> FALSE]

\* except errors.NotBranchError: return (None, None, None)
NoDerivedBranch ==
    [resume_branch |-> FALSE, overwrite |-> None, proposal |-> 0,
     listed |-> FALSE]

\* A bug: a branch whose proposals are all merged is not overwritten.
StaleOverwrite_Never(listing, overwrite_unrelated) ==
    IF Len(listing) > 0 THEN "False"
    ELSE IF overwrite_unrelated THEN "True" ELSE "False"

\* A bug: overwrite_unrelated is ignored.
StaleOverwrite_IgnoresFlag(listing, overwrite_unrelated) ==
    IF Len(listing) > 0 THEN "True" ELSE "False"

\* A bug: only a merged proposal marks the branch as one to overwrite.
StaleOverwrite_MergedOnly(listing, overwrite_unrelated) ==
    IF \E i \in 1..Len(listing) : listing[i].status = "merged" THEN "True"
    ELSE IF overwrite_unrelated THEN "True" ELSE "False"

\* The for loop's else clause: the overwrite flag when no listed proposal
\* is open; merged_proposal is set as soon as one proposal was listed.
StaleOverwrite(listing, overwrite_unrelated) ==
    IF Len(listing) > 0 THEN "True"
    ELSE IF overwrite_unrelated THEN "True" ELSE "False"

\* A bug: a branch none of whose proposals is open is resumed all the same.
find_existing_proposed_ResumesStale(rem, overwrite_unrelated) ==
    IF ~rem.derived.exists THEN NoDerivedBranch
    ELSE LET open == {i \in 1..Len(rem.proposals) : is_open(rem.proposals[i])}
         IN IF open # {}
            THEN [resume_branch |-> TRUE, overwrite |-> "False",
                  proposal |-> CHOOSE i \in open : \A j \in open : i <= j,
                  listed |-> TRUE]
            ELSE [resume_branch |-> TRUE,
                  overwrite |-> StaleOverwrite(rem.proposals,
                                               overwrite_unrelated),
                  proposal |-> 0, listed |-> TRUE]

\* (resume_branch, overwrite_existing, existing_proposal): the derived branch
\* is returned as a flag, the proposal as its position in the provider's
\* listing (0: none), overwrite as "None", "True" or "False"; listed tells
\* whether hoster.iter_proposals was called.
find_existing_proposed(rem, overwrite_unrelated) ==
    IF ~rem.derived.exists THEN NoDerivedBranch
    ELSE LET open == {i \in 1..Len(rem.proposals) : is_open(rem.proposals[i])}
         IN IF open # {}
            THEN [resume_branch |-> TRUE, overwrite |-> "False",
                  proposal |-> CHOOSE i \in open : \A j \in open : i <= j,
                  listed |-> TRUE]
            ELSE [resume_branch |-> FALSE,
                  overwrite |-> StaleOverwrite(rem.proposals,
                                               overwrite_unrelated),
                  proposal |-> 0, listed |-> TRUE]

\* apply_and_publish: the resume branch handed to Workspace().
ResumeBranchArg(fnd) == fnd.resume_branch /\ ~fnd.refresh

\* apply_and_publish: the overwrite flag handed to publish_changes.
OverwriteArg(fnd) ==
    IF fnd.refresh /\ fnd.resume_branch THEN TRUE
    ELSE fnd.overwrite = "True"

\* ------------------------------------------------------ Workspace.__enter__
\* WorkingTree.pull(source, overwrite): the local head afterwards; a
\* DivergedBranches error leaves it where it was.
Pull(local, source, overwrite) ==
    IF is_ancestor(local, source) \/ overwrite THEN source ELSE local

\* Whether __enter__ discards the resume branch and restarts from main.
Restarts(resume, main_rev, local) ==
    resume /\ merge_conflicts(main_rev, local)

\* local_tree.update(revision=main_branch_revid) and
\* generate_revision_history(main_branch_revid): the local head on a restart.
\* A bug: the restart leaves the local head on the resume branch.
RestartHead_Stale(main_branch_revid, local) == local

RestartHead(main_branch_revid, local) == main_branch_revid

\* A bug: the resume branch is preferred to the cache.
SproutSource_ResumeFirst(cached, resume) ==
    IF resume THEN "resume" ELSE IF cached THEN "cache" ELSE "main"

\* create_temp_sprout(cached_branch or resume_branch or main_branch)
SproutSource(cached, resume) ==
    IF cached THEN "cache" ELSE IF resume THEN "resume" ELSE "main"

\* The head of the clone create_temp_sprout makes: that of the branch it is
\* made from, as the hosting site has it when the clone is made; the cache
\* holds the project's first revision.
create_temp_sprout(rem, cached, resume) ==
    LET source == SproutSource(cached, resume)
    IN IF source = "cache" THEN {Root}
       ELSE IF source = "resume" THEN rem.derived.head ELSE rem.main

\* __enter__ from the line after create_temp_sprout: sprout is the head of
\* the clone, rem the hosting site as these lines read it. given records
\* the branches the constructor was handed, seed the branch the clone was
\* made from.
Workspace_enter_sprouted(sprout, rem, resume, cached, colo) ==
    LET main_branch_revid == rem.main
        l1 == IF cached
              THEN Pull(sprout, IF resume THEN rem.derived.head ELSE rem.main,
                        TRUE)
              ELSE sprout
        l2 == IF resume THEN Pull(l1, rem.main, FALSE) ELSE l1
        restart == Restarts(resume, rem.main, l2)
        l3 == IF restart THEN RestartHead(main_branch_revid, l2) ELSE l2
    IN [alive |-> TRUE,
        resume_branch |-> resume /\ ~restart,
        local |-> l3,
        main_branch_revid |-> main_branch_revid,
        orig_revid |-> l3,
        refreshed |-> restart,
        seed |-> SproutSource(cached, resume),
        given |-> [cached |-> cached, resume |-> resume],
        colo |-> colo,
        discarded |-> IF restart THEN l2 \ main_branch_revid ELSE {},
        destroy |-> TRUE, clone |-> "live", handed |-> FALSE,
        releases |-> 0, exits |-> 0]

\* __enter__ with nothing happening on the hosting site while it runs.
Workspace_enter(rem, resume, cached, colo) ==
    Workspace_enter_sprouted(create_temp_sprout(rem, cached, resume), rem,
                             resume, cached, colo)

\* __enter__ up to an error raised after create_temp_sprout returned: the
\* clone exists and self._destroy is its release callback.
Workspace_enter_raises(w) ==
    [w EXCEPT !.destroy = TRUE, !.clone = "live"]

\* Workspace.defer_destroy: the callback it returns (FALSE: None) and the
\* workspace afterwards; handed records that the caller got the callback.
Workspace_defer_destroy(w) ==
    [w EXCEPT !.destroy = FALSE, !.handed = @ \/ w.destroy]

\* A bug: __exit__ releases the clone whether or not it holds the callback.
Workspace_exit_Unconditional(w) ==
    [w EXCEPT !.clone = IF @ = "none" THEN @ ELSE "released",
              !.releases = IF w.clone = "none" THEN @ ELSE @ + 1,
              !.destroy = FALSE, !.exits = @ + 1]

\* Workspace.__exit__: releases counts the calls of the release callback
\* the workspace made.
Workspace_exit(w) ==
    IF w.destroy
    THEN [w EXCEPT !.clone = "released", !.releases = @ + 1,
                   !.destroy = FALSE, !.exits = @ + 1]
    ELSE [w EXCEPT !.exits = @ + 1]

\* A bug: the local head is compared with the head the workspace began at.
changes_since_main_SinceResume(w) == w.local # w.orig_revid

\* A bug: the local head is compared with the null revision.
changes_since_main_Null(w) == w.local # {}

changes_since_main(w) == w.local # w.main_branch_revid

changes_since_resume(w) == w.orig_revid # w.local


\* ------------------------------------------------- the frame of one call
\* What a call has done so far: the hosting site as it left it, the remote
\* operations and callbacks it made, the exception it raised (None: none),
\* and the values it returns.
Frame(rem, mode) == [remote |-> rem, calls |-> <<>>, raised |-> None,
                     mode |-> mode, proposal |-> NoProposal, is_new |-> FALSE]

Call(f, op) == [f EXCEPT !.calls = Append(@, op)]

Raise(f, exc) == [f EXCEPT !.raised = exc]

\* --------------------------------------------------------------- push_result
\* outcome: what the transport does with the push to main ("ok",
\* "PermissionDenied", "LockFailed", "TransportError").
PushError(outcome) ==
    IF outcome = "LockFailed" THEN "PermissionDenied" ELSE outcome

push_result(f, local, colo, outcome) ==
    LET f1 == Call(f, "push_main")
    IN IF outcome # "ok" THEN Raise(f1, PushError(outcome))
       ELSE IF PushOutcome(f.remote.main, local, FALSE) # "ok"
       THEN Raise(f1, "DivergedBranches")
       ELSE LET f2 == [f1 EXCEPT !.remote.main = local]
            IN IF colo THEN Call(f2, "push_colo_main") ELSE f2

\* -------------------------------------------------------------- push_changes
\* A bug: the dry-run test is inverted.
push_changes_Inverted(f, local, colo, dry_run, outcome) ==
    IF ~dry_run THEN f ELSE push_result(f, local, colo, outcome)

push_changes(f, local, colo, dry_run, outcome) ==
    IF dry_run THEN f ELSE push_result(f, local, colo, outcome)

\* --------------------------------------------------- Hoster.publish_derived
publish_derived(f, local, overwrite, fault) ==
    LET f1 == Call(f, "publish_derived")
        d == f.remote.derived
    IN IF fault = "derived_push" THEN Raise(f1, "TransportError")
       ELSE IF d.exists /\ PushOutcome(d.head, local, overwrite) # "ok"
       THEN Raise(f1, "DivergedBranches")
       ELSE [f1 EXCEPT !.remote.derived = [exists |-> TRUE, head |-> local]]

\* ------------------------------------------------------ push_derived_changes
\* A bug: the caller's overwrite flag is replaced by True.
push_derived_changes_Force(f, local, overwrite, fault) ==
    publish_derived(f, local, TRUE, fault)

push_derived_changes(f, local, overwrite, fault) ==
    publish_derived(f, local, overwrite, fault)

\* ------------------------------------------------------------ MergeProposal
get_description(f, rp) ==
    IF rp.kind = "real" THEN f.remote.proposals[rp.idx].description
    ELSE rp.description

get_commit_message(f, rp) ==
    IF rp.kind = "real" THEN f.remote.proposals[rp.idx].commit_message
    ELSE rp.commit_message

is_closed(f, rp) ==
    IF rp.kind = "real" THEN f.remote.proposals[rp.idx].status = "closed"
    ELSE FALSE

close(f, i) ==
    [Call(f, "close") EXCEPT !.remote.proposals[i].status = "closed"]

\* A bug: the dry run goes on with the real proposal, not with a copy.
from_existing_Real(f, rp) == rp

\* DryRunProposal.from_existing
from_existing(f, rp) ==
    [kind |-> "dryrun", idx |-> rp.idx,
     description |-> get_description(f, rp),
     commit_message |-> get_commit_message(f, rp)]


\* ----------------------------------------------------------- propose_changes
\* a: [resume_branch, resume_proposal, overwrite_existing, dry_run,
\*     mp_description, commit_message, allow_empty, colo, fault]
\* fault: the one operation of the hosting site that fails in this call
\* ("none", "derived_push", "reopen_failed", "reopen_unsupported",
\* "create_denied").

\* if not allow_empty: check_proposal_diff(local_branch, main_branch)
ProposeCheck(f, local, a) ==
    IF a.allow_empty THEN f
    ELSE LET e == check_proposal_diff(local, f.remote.main)
         IN IF e = None THEN f ELSE Raise(f, e)

\* local_branch.push(resume_branch, overwrite=overwrite_existing)
push_resume(f, local, overwrite, fault) ==
    LET f1 == Call(f, "push_resume")
    IN IF fault = "derived_push" THEN Raise(f1, "TransportError")
       ELSE IF PushOutcome(f.remote.derived.head, local, overwrite) # "ok"
       THEN Raise(f1, "DivergedBranches")
       ELSE [f1 EXCEPT !.remote.derived.head = local]

\* A bug: the resume branch is ignored and a derived branch is published.
ProposePush_NoResume(f, local, a) ==
    IF a.dry_run THEN f
    ELSE LET f1 == publish_derived(f, local, a.overwrite_existing, a.fault)
         IN IF f1.raised # "None" THEN f1
            ELSE IF a.colo THEN Call(f1, "push_colo_derived") ELSE f1

\* if not dry_run: push to the resume branch or publish a derived branch,
\* then push the colocated branches.
ProposePush(f, local, a) ==
    IF a.dry_run THEN f
    ELSE LET f1 == IF a.resume_branch
                   THEN push_resume(f, local, a.overwrite_existing, a.fault)
                   ELSE publish_derived(f, local, a.overwrite_existing, a.fault)
         IN IF f1.raised # None THEN f1
            ELSE IF a.colo THEN Call(f1, "push_colo_derived") ELSE f1

\* The resume proposal propose_changes goes on with: an in-memory copy in a
\* dry run, and none once reopening a closed one has failed.
ProposeReopen(f, a) ==
    LET rp0 == IF a.resume_proposal = 0 THEN NoProposal
               ELSE RealProposal(a.resume_proposal)
        rp1 == IF rp0.kind = "real" /\ a.dry_run THEN from_existing(f, rp0)
               ELSE rp0
    IN IF rp1.kind # "none" /\ is_closed(f, rp1)
       THEN LET f1 == Call(f, "reopen")
            IN IF a.fault = "reopen_failed"
               THEN [f |-> f1, rp |-> NoProposal]
               ELSE IF a.fault = "reopen_unsupported"
               THEN [f |-> Raise(f1, "NotImplementedError"), rp |-> rp1]
               ELSE [f |-> [f1 EXCEPT !.remote.proposals[rp1.idx].status =
                                          "open"],
                     rp |-> rp1]
       ELSE [f |-> f, rp |-> rp1]

set_description(f, rp, d) ==
    IF rp.kind = "real"
    THEN [f |-> [Call(f, "set_description")
                     EXCEPT !.remote.proposals[rp.idx].description = d],
          rp |-> rp]
    ELSE [f |-> f, rp |-> [rp EXCEPT !.description = d]]

\* On a provider that stores no commit messages the setter raises
\* UnsupportedOperation, which propose_changes swallows.
set_commit_message(f, rp, m) ==
    IF rp.kind = "real"
    THEN [f |-> IF supportsCM
                THEN [Call(f, "set_commit_message")
                          EXCEPT !.remote.proposals[rp.idx].commit_message = m]
                ELSE Call(f, "set_commit_message"),
          rp |-> rp]
    ELSE [f |-> f, rp |-> [rp EXCEPT !.commit_message = m]]

\* A bug: the description is set whether or not it differs.
NeedsDescription_Always(f, rp, a) == TRUE

\* A bug: the commit message is never updated.
NeedsCommitMessage_Never(f, rp, a) == FALSE

\* Whether propose_changes sets the description / the commit message.
NeedsDescription(f, rp, a) == get_description(f, rp) # a.mp_description

NeedsCommitMessage(f, rp, a) == get_commit_message(f, rp) # a.commit_message

\* if resume_proposal is not None: ... return (resume_proposal, False)
ProposeUpdate(f, rp, a) ==
    LET s1 == IF NeedsDescription(f, rp, a)
              THEN set_description(f, rp, a.mp_description)
              ELSE [f |-> f, rp |-> rp]
        s2 == IF NeedsCommitMessage(s1.f, s1.rp, a)
              THEN set_commit_message(s1.f, s1.rp, a.commit_message)
              ELSE s1
    IN [s2.f EXCEPT !.proposal = s2.rp, !.is_new = FALSE]

\* else: create_proposal, or a DryRunProposal; return (mp, True)
ProposeCreate(f, a) ==
    IF a.dry_run
    THEN [f EXCEPT !.proposal = [kind |-> "dryrun", idx |-> 0,
                                 description |-> a.mp_description,
                                 commit_message |-> a.commit_message],
                   !.is_new = TRUE]
    ELSE LET f1 == Call(f, "create_proposal")
         IN IF a.fault = "create_denied" THEN Raise(f1, "PermissionDenied")
            ELSE [f1 EXCEPT
                     !.remote.proposals = Append(@,
                         [status |-> "open",
                          description |-> a.mp_description,
                          commit_message |-> IF supportsCM
                                             THEN a.commit_message ELSE None]),
                     !.proposal = RealProposal(Len(f.remote.proposals) + 1),
                     !.is_new = TRUE]

\* A bug: the proposal is reopened, updated or created before the push.
propose_changes_PushLast(f, local, a) ==
    LET f1 == ProposeCheck(f, local, a)
        r == ProposeReopen(f1, a)
        f3 == IF r.rp.kind # "none" THEN ProposeUpdate(r.f, r.rp, a)
              ELSE ProposeCreate(r.f, a)
    IN IF f1.raised # None THEN f1
       ELSE IF r.f.raised # None THEN r.f
       ELSE IF f3.raised # None THEN f3
       ELSE ProposePush(f3, local, a)

propose_changes(f, local, a) ==
    LET f1 == ProposeCheck(f, local, a)
        f2 == ProposePush(f1, local, a)
        r == ProposeReopen(f2, a)
    IN IF f1.raised # None THEN f1
       ELSE IF f2.raised # None THEN f2
       ELSE IF r.f.raised # None THEN r.f
       ELSE IF r.rp.kind # "none" THEN ProposeUpdate(r.f, r.rp, a)
       ELSE ProposeCreate(r.f, a)


\* ----------------------------------------------------------- publish_changes
\* a: [mode, dry_run, allow_create_proposal, description, commit_message,
\*     overwrite_existing, existing_proposal, push, fault]
\* description: what get_proposal_description returns (None, "", or a text);
\* commit_message: what get_proposal_commit_message returns, or NoCallback
\* when the caller passed no such callback.

\* A bug: the existing proposal is handed over whether or not the workspace
\* still has a resume branch.
CallbackArg_Always(w, a) ==
    IF a.existing_proposal # 0 THEN "existing" ELSE None

\* The proposal the callbacks are handed.
CallbackArg(w, a) ==
    IF w.resume_branch /\ a.existing_proposal # 0 THEN "existing" ELSE None

\* A bug: any failure of the push falls back to proposing.
FallsBack_AnyError(mode, exc) == mode = "attempt-push"

\* A bug: the mode is compared with a misspelt name.
FallsBack_Misspelt(mode, exc) ==
    mode = "attempt_push" /\ exc = "PermissionDenied"

\* A bug: every mode falls back on permission denial.
FallsBack_AnyMode(mode, exc) == exc = "PermissionDenied"

\* except PermissionDenied: if mode == 'attempt-push': mode = 'propose'
FallsBack(mode, exc) == mode = "attempt-push" /\ exc = "PermissionDenied"

\* Workspace.propose
Workspace_propose(f, w, a) ==
    propose_changes(f, w.local,
        [resume_branch |-> w.resume_branch,
         resume_proposal |-> a.existing_proposal,
         overwrite_existing |-> a.overwrite_existing,
         dry_run |-> a.dry_run,
         mp_description |-> a.description,
         commit_message |-> a.commit_message,
         allow_empty |-> FALSE,
         colo |-> w.colo,
         fault |-> a.fault])

\* A bug: only None counts as a missing description.
DescriptionMissing_OnlyNone(d) == d = None

\* if not mp_description
DescriptionMissing(d) == d \in {None, ""}

\* A bug: the policy on creating proposals is not consulted.
CreationDisallowed_Ignored(w, a) == FALSE

\* if not ws.resume_branch and not allow_create_proposal
CreationDisallowed(w, a) == ~w.resume_branch /\ ~a.allow_create_proposal

\* From "assert mode == 'propose'" to the end of publish_changes.
PublishPropose(f, w, a) ==
    IF CreationDisallowed(w, a) THEN f
    ELSE LET f1 == Call(f, IF CallbackArg(w, a) = None
                           THEN "get_proposal_description(None)"
                           ELSE "get_proposal_description(existing)")
             f2 == IF a.commit_message = NoCallback THEN f1
                   ELSE Call(f1, IF CallbackArg(w, a) = None
                                 THEN "get_proposal_commit_message(None)"
                                 ELSE "get_proposal_commit_message(existing)")
         IN IF DescriptionMissing(a.description)
            THEN Raise(f2, "MergeProposalDescriptionMissing")
            ELSE IF a.commit_message = NoCallback
            THEN Raise(f2, "UnboundLocalError")
            ELSE Workspace_propose(f2, w, a)

\* A bug: a result of the fallback still carries the mode 'attempt-push'.
publish_changes_KeepsMode(w, rem, a) ==
    LET f0 == Frame(rem, a.mode)
    IN IF a.mode \notin SUPPORTED_MODES THEN Raise(f0, "ValueError")
       ELSE IF ~changes_since_main(w)
       THEN IF a.existing_proposal # 0 THEN close(f0, a.existing_proposal)
            ELSE f0
       ELSE IF a.mode = "push-derived"
       THEN push_derived_changes(f0, w.local, a.overwrite_existing, a.fault)
       ELSE IF a.mode \in {"push", "attempt-push"}
       THEN LET f1 == push_changes(f0, w.local, w.colo, a.dry_run, a.push)
            IN IF f1.raised = None THEN f1
               ELSE IF FallsBack(a.mode, f1.raised)
               THEN PublishPropose([f1 EXCEPT !.raised = None], w, a)
               ELSE f1
       ELSE PublishPropose(f0, w, a)

publish_changes(w, rem, a) ==
    LET f0 == Frame(rem, a.mode)
    IN IF a.mode \notin SUPPORTED_MODES THEN Raise(f0, "ValueError")
       ELSE IF ~changes_since_main(w)
       THEN IF a.existing_proposal # 0 THEN close(f0, a.existing_proposal)
            ELSE f0
       ELSE IF a.mode = "push-derived"
       THEN push_derived_changes(f0, w.local, a.overwrite_existing, a.fault)
       ELSE IF a.mode \in {"push", "attempt-push"}
       THEN LET f1 == push_changes(f0, w.local, w.colo, a.dry_run, a.push)
            IN IF f1.raised = None THEN f1
               ELSE IF FallsBack(a.mode, f1.raised)
               THEN PublishPropose([f1 EXCEPT !.raised = None,
                                              !.mode = "propose"], w, a)
               ELSE f1
       ELSE PublishPropose(f0, w, a)

ResultOf(f) == [raised |-> f.raised, mode |-> f.mode,
                proposal |-> IF f.raised = None THEN f.proposal ELSE NoProposal,
                is_new |-> f.raised = None /\ f.is_new]


\* ------------------------------------------------------------------ actions
Init ==
    /\ remote \in {[main |-> {Root}, derived |-> d, proposals |-> <<>>] :
                     d \in {NoBranch, [exists |-> TRUE, head |-> {Alien}]}}
    /\ supportsCM \in BOOLEAN
    /\ pc = "idle"
    /\ found = NoFound
    /\ ws = NoWorkspace
    /\ pub = NoPub
    /\ calls = <<>>
    /\ result = NoResult
    /\ last = NoLast
    /\ runs = 0
    /\ NoMerges
    /\ up = NoUpload

Known == remote.main \cup remote.derived.head \cup ws.local \cup ws.discarded

\* Somebody commits to the main branch.
EnvMainCommit ==
    /\ pc = "idle"
    /\ Cardinality(remote.main \cap MainCommits) < MaxMainCommits
    /\ \E c \in MainCommits \ Known :
          /\ c[2] \notin HunksOf(remote.main)
          /\ remote' = [remote EXCEPT !.main = @ \cup {c}]
    /\ last' = NoLast
    /\ UNCHANGED mcvars
    /\ UNCHANGED up
    /\ UNCHANGED <<supportsCM, pc, found, ws, pub, calls, result, runs>>

\* A maintainer merges an open proposal that merges cleanly.
EnvMergeProposal ==
    /\ pc = "idle"
    /\ \E i \in 1..Len(remote.proposals) :
          /\ remote.proposals[i].status = "open"
          /\ ~merge_conflicts(remote.main, remote.derived.head)
          /\ remote' = [remote EXCEPT !.main = @ \cup remote.derived.head,
                                      !.proposals[i].status = "merged"]
    /\ last' = NoLast
    /\ UNCHANGED mcvars
    /\ UNCHANGED up
    /\ UNCHANGED <<supportsCM, pc, found, ws, pub, calls, result, runs>>

\* A maintainer closes an open proposal.
EnvCloseProposal ==
    /\ pc = "idle"
    /\ \E i \in 1..Len(remote.proposals) :
          /\ remote.proposals[i].status = "open"
          /\ remote' = [remote EXCEPT !.proposals[i].status = "closed"]
    /\ last' = NoLast
    /\ UNCHANGED mcvars
    /\ UNCHANGED up
    /\ UNCHANGED <<supportsCM, pc, found, ws, pub, calls, result, runs>>

\* apply_and_publish up to the Workspace() call.
FindExisting ==
    /\ pc = "idle"
    /\ runs < MaxRuns
    /\ \E overwrite_unrelated \in
              (IF remote.derived.exists /\ remote.proposals = <<>>
               THEN BOOLEAN ELSE {FALSE}) :
          LET t == find_existing_proposed(remote, overwrite_unrelated)
          IN \E refresh \in (IF t.resume_branch THEN BOOLEAN ELSE {FALSE}) :
                found' = [resume_branch |-> t.resume_branch,
                          overwrite |-> t.overwrite,
                          proposal |-> t.proposal,
                          listed |-> t.listed,
                          refresh |-> refresh,
                          overwrite_unrelated |-> overwrite_unrelated]
    /\ pc' = "found"
    /\ UNCHANGED mcvars
    /\ UNCHANGED up
    /\ UNCHANGED <<remote, supportsCM, ws, pub, calls, result, last, runs>>

\* with Workspace(main_branch, resume_branch=...) as ws:
Acquire ==
    /\ pc = "found"
    /\ \E cached \in BOOLEAN, colo \in BOOLEAN :
          ws' = Workspace_enter(remote, ResumeBranchArg(found), cached, colo)
    /\ pc' = "acquired"
    /\ UNCHANGED mcvars
    /\ UNCHANGED up
    /\ UNCHANGED <<remote, supportsCM, found, pub, calls, result, last, runs>>

\* The change-producing script commits to the local tree, or changes nothing.
RunScript ==
    /\ pc = "acquired"
    /\ \/ \E c \in ScriptCommits \ Known :
             /\ c[2] \notin HunksOf(ws.local)
             /\ ws' = [ws EXCEPT !.local = @ \cup {c}, !.seed = None,
                                 !.given = NoWorkspace.given]
       \/ ws' = [ws EXCEPT !.seed = None, !.given = NoWorkspace.given]
    /\ pc' = "scripted"
    /\ UNCHANGED mcvars
    /\ UNCHANGED up
    /\ UNCHANGED <<remote, supportsCM, found, pub, calls, result, last, runs>>

PushOutcomes == {"ok", "PermissionDenied", "LockFailed", "TransportError"}

\* Whether a publish_changes call with these inputs gets to the propose step.
ReachesPropose(mode, dry_run, push) ==
    /\ changes_since_main(ws)
    /\ \/ mode = "propose"
       \/ mode = "attempt-push" /\ ~dry_run
                                /\ push \in {"PermissionDenied", "LockFailed"}

\* The inputs of one publish_changes call; an input the call's path never
\* reads is held at one value.
PublishChanges ==
    /\ pc = "scripted"
    /\ \E mode \in SUPPORTED_MODES \cup {"bogus"} :
       \E dry_run \in (IF mode = "bogus" THEN {FALSE} ELSE BOOLEAN) :
       \E push \in (IF mode \in {"push", "attempt-push"} /\ ~dry_run
                       /\ changes_since_main(ws)
                    THEN PushOutcomes ELSE {"ok"}) :
       LET prop == ReachesPropose(mode, dry_run, push) IN
       \E allow \in (IF prop /\ ~ws.resume_branch THEN BOOLEAN ELSE {TRUE}) :
       \E desc \in (IF prop /\ allow THEN {None, ""} \cup Descriptions
                    ELSE {"d1"}) :
       \E cm \in (IF prop /\ allow /\ desc \in Descriptions
                  THEN {NoCallback, None} \cup Messages
                  ELSE IF prop /\ allow THEN {NoCallback, None}
                  ELSE {None}) :
       LET pushes == /\ changes_since_main(ws)
                     /\ \/ mode = "push-derived"
                        \/ /\ prop /\ allow /\ desc \in Descriptions
                           /\ cm # NoCallback /\ ~dry_run
       IN
       \E ow \in (IF pushes THEN {OverwriteArg(found), TRUE}
                  ELSE {OverwriteArg(found)}) :
       \E fault \in (IF ~pushes THEN {"none"}
                     ELSE IF mode = "push-derived" \/ found.proposal # 0
                     THEN {"none", "derived_push"}
                     ELSE {"none", "derived_push", "create_denied"}) :
          LET a == [mode |-> mode, dry_run |-> dry_run,
                    allow_create_proposal |-> allow,
                    description |-> desc, commit_message |-> cm,
                    overwrite_existing |-> ow,
                    existing_proposal |-> found.proposal,
                    push |-> push, fault |-> fault]
              f == publish_changes(ws, remote, a)
          IN /\ Len(f.remote.proposals) <= MaxProposals
             /\ remote' = f.remote
             /\ calls' = f.calls
             /\ result' = ResultOf(f)
             /\ pub' = [call |-> "publish_changes", args |-> a, pre |-> remote]
    /\ pc' = "published"
    /\ UNCHANGED mcvars
    /\ UNCHANGED up
    /\ UNCHANGED <<supportsCM, found, ws, last, runs>>

\* A caller that calls propose_changes itself, with arguments of its own.
ProposeChanges ==
    /\ pc = "scripted"
    /\ \E resume_branch \in (IF remote.derived.exists THEN BOOLEAN
                             ELSE {FALSE}) :
       \E resume_proposal \in 0..Len(remote.proposals) :
       \E dry_run \in BOOLEAN, allow_empty \in BOOLEAN :
       \E ow \in {TRUE}, cm \in Messages :
       \E fault \in (IF dry_run THEN {"none"}
                     ELSE IF resume_proposal = 0
                     THEN {"none", "derived_push", "create_denied"}
                     ELSE IF remote.proposals[resume_proposal].status = "closed"
                     THEN {"none", "derived_push", "reopen_failed",
                           "reopen_unsupported"}
                     ELSE {"none", "derived_push"}) :
          LET a == [resume_branch |-> resume_branch,
                    resume_proposal |-> resume_proposal,
                    overwrite_existing |-> ow, dry_run |-> dry_run,
                    mp_description |-> "d1", commit_message |-> cm,
                    allow_empty |-> allow_empty, colo |-> ws.colo,
                    fault |-> fault]
              f == propose_changes(Frame(remote, "propose"), ws.local, a)
          IN /\ Len(f.remote.proposals) <= MaxProposals
             /\ remote' = f.remote
             /\ calls' = f.calls
             /\ result' = ResultOf(f)
             /\ pub' = [call |-> "propose_changes", args |-> a, pre |-> remote]
    /\ pc' = "published"
    /\ UNCHANGED mcvars
    /\ UNCHANGED up
    /\ UNCHANGED <<supportsCM, found, ws, last, runs>>

\* Whether the call just made was the workflow's: publish_changes in propose
\* mode, for real, with what find_existing_proposed returned.
WorkflowPropose ==
    /\ pub.call = "publish_changes"
    /\ pub.args.mode = "propose"
    /\ ~pub.args.dry_run
    /\ ~found.refresh
    /\ ~found.overwrite_unrelated
    /\ pub.args.overwrite_existing = OverwriteArg(found)

\* Workspace.__exit__, and the end of the run.
Exit ==
    /\ pc = "published"
    /\ last' = IF WorkflowPropose /\ result.raised = None
                  /\ result.proposal.kind = "real"
               THEN [valid |-> TRUE, local |-> ws.local,
                     description |-> pub.args.description,
                     commit_message |-> pub.args.commit_message,
                     proposal |-> result.proposal.idx,
                     remote |-> remote]
               ELSE NoLast
    /\ pc' = "idle"
    /\ runs' = runs + 1
    /\ found' = NoFound
    /\ ws' = NoWorkspace
    /\ pub' = NoPub
    /\ calls' = <<>>
    /\ result' = NoResult
    /\ UNCHANGED mcvars
    /\ UNCHANGED up
    /\ UNCHANGED <<remote, supportsCM>>

Next ==
    \/ EnvMainCommit
    \/ EnvMergeProposal
    \/ EnvCloseProposal
    \/ FindExisting
    \/ Acquire
    \/ RunScript
    \/ PublishChanges
    \/ ProposeChanges
    \/ Exit

Spec == Init /\ [][Next]_vars


\* A run of the workflow only: no caller calls propose_changes by itself.
NextWorkflow ==
    \/ EnvMainCommit
    \/ EnvMergeProposal
    \/ EnvCloseProposal
    \/ FindExisting
    \/ Acquire
    \/ RunScript
    \/ PublishChanges
    \/ Exit

SpecWorkflow == Init /\ [][NextWorkflow]_vars

\* --------------------------------- find_existing_proposed on any provider
\* The states of the provider: a derived branch or none, and any listing of
\* up to MaxListing proposals, each open, closed or merged.
Listings ==
    UNION {[1..n -> {[status |-> st, description |-> "d1",
                      commit_message |-> None] :
                        st \in {"open", "closed", "merged"}}] :
             n \in 0..MaxListing}

InitFind ==
    /\ remote \in {[main |-> {Root}, derived |-> d, proposals |-> l] :
                     d \in {NoBranch,
                            [exists |-> TRUE, head |-> {Alien}],
                            [exists |-> TRUE,
                             head |-> {Root, <<"script", 1, "fix">>}]},
                     l \in Listings}
    /\ supportsCM = TRUE
    /\ pc = "idle"
    /\ found = NoFound
    /\ ws = NoWorkspace
    /\ pub = NoPub
    /\ calls = <<>>
    /\ result = NoResult
    /\ last = NoLast
    /\ runs = 0
    /\ NoMerges
    /\ up = NoUpload

NextFind == FindExisting

SpecFind == InitFind /\ [][NextFind]_vars

\* ------------------------------------------------ the scope of a Workspace
\* One Workspace object, from its construction on: __enter__, then
\* defer_destroy and __exit__ calls in any order, and the caller's use of the
\* release callback it was handed.
ScopeRemotes ==
    {[main |-> m, derived |-> d, proposals |-> <<>>] :
        m \in {{Root}, {Root, <<"main", 1, "other">>}},
        d \in {NoBranch,
               [exists |-> TRUE, head |-> {Alien}],
               [exists |-> TRUE, head |-> {Root, <<"script", 1, "fix">>}]}}

InitScope ==
    /\ remote \in ScopeRemotes
    /\ supportsCM = TRUE
    /\ pc = "constructed"
    /\ found = NoFound
    /\ ws = NoWorkspace
    /\ pub = NoPub
    /\ calls = <<>>
    /\ result = NoResult
    /\ last = NoLast
    /\ runs = 0
    /\ NoMerges
    /\ up = NoUpload

\* with ws: __enter__ returns, or raises after the clone was made, in which
\* case the with statement does not call __exit__.
ScopeEnter ==
    /\ pc = "constructed"
    /\ \/ /\ \E resume \in (IF remote.derived.exists THEN BOOLEAN
                              ELSE {FALSE}),
                cached \in BOOLEAN, colo \in BOOLEAN :
                ws' = Workspace_enter(remote, resume, cached, colo)
          /\ pc' = "entered"
       \/ /\ ws' = Workspace_enter_raises(ws)
          /\ pc' = "left"
    /\ UNCHANGED mcvars
    /\ UNCHANGED up
    /\ UNCHANGED <<remote, supportsCM, found, pub, calls, result, last, runs>>

\* ws.defer_destroy()
ScopeDeferDestroy ==
    /\ pc \in {"entered", "left"}
    /\ ws' = Workspace_defer_destroy(ws)
    /\ UNCHANGED mcvars
    /\ UNCHANGED up
    /\ UNCHANGED <<remote, supportsCM, pc, found, pub, calls, result, last,
                   runs>>

\* The with statement ends, by a return or by an error raised in its body,
\* or the caller calls __exit__ itself.
ScopeExit ==
    /\ pc \in {"entered", "left"}
    /\ ws.exits < MaxExits
    /\ ws' = Workspace_exit(ws)
    /\ pc' = "left"
    /\ UNCHANGED mcvars
    /\ UNCHANGED up
    /\ UNCHANGED <<remote, supportsCM, found, pub, calls, result, last, runs>>

\* The caller calls the release callback defer_destroy returned.
ScopeCallerDestroys ==
    /\ pc \in {"entered", "left"}
    /\ ws.handed
    /\ ws.clone = "live"
    /\ ws' = [ws EXCEPT !.clone = "released"]
    /\ UNCHANGED mcvars
    /\ UNCHANGED up
    /\ UNCHANGED <<remote, supportsCM, pc, found, pub, calls, result, last,
                   runs>>

NextScope ==
    \/ ScopeEnter
    \/ ScopeDeferDestroy
    \/ ScopeExit
    \/ ScopeCallerDestroys

SpecScope == InitScope /\ [][NextScope]_vars

\* ------------------------------------ Workspace.__enter__, line by line
\* __enter__ reads the hosting site twice: create_temp_sprout makes the
\* clone, then the following lines take main's head and pull. Other users
\* of the hosting site may commit to main at any moment.
InitAcquire ==
    /\ remote \in ScopeRemotes
    /\ supportsCM = TRUE
    /\ pc = "constructed"
    /\ found = NoFound
    /\ ws = NoWorkspace
    /\ pub = NoPub
    /\ calls = <<>>
    /\ result = NoResult
    /\ last = NoLast
    /\ runs = 0
    /\ NoMerges
    /\ up = NoUpload

\* self.local_tree, self._destroy = create_temp_sprout(...)
AcquireSprout ==
    /\ pc = "constructed"
    /\ \E resume \in (IF remote.derived.exists THEN BOOLEAN ELSE {FALSE}),
          cached \in BOOLEAN, colo \in BOOLEAN :
          ws' = [NoWorkspace EXCEPT
                    !.local = create_temp_sprout(remote, cached, resume),
                    !.seed = SproutSource(cached, resume),
                    !.given = [cached |-> cached, resume |-> resume],
                    !.colo = colo, !.destroy = TRUE, !.clone = "live"]
    /\ pc' = "sprouted"
    /\ UNCHANGED mcvars
    /\ UNCHANGED up
    /\ UNCHANGED <<remote, supportsCM, found, pub, calls, result, last, runs>>

\* Somebody commits to the main branch while the workspace is acquired.
AcquireMainCommit ==
    /\ pc \in {"constructed", "sprouted"}
    /\ Cardinality(remote.main \cap MainCommits) < MaxMainCommits
    /\ \E c \in MainCommits \ (remote.main \cup remote.derived.head) :
          /\ c[2] \notin HunksOf(remote.main)
          /\ remote' = [remote EXCEPT !.main = @ \cup {c}]
    /\ UNCHANGED mcvars
    /\ UNCHANGED up
    /\ UNCHANGED <<supportsCM, pc, found, ws, pub, calls, result, last, runs>>

\* The rest of __enter__, from self.main_branch_revid = ... to return self.
AcquireSnapshot ==
    /\ pc = "sprouted"
    /\ ws' = Workspace_enter_sprouted(ws.local, remote, ws.given.resume,
                                      ws.given.cached, ws.colo)
    /\ pc' = "entered"
    /\ UNCHANGED mcvars
    /\ UNCHANGED up
    /\ UNCHANGED <<remote, supportsCM, found, pub, calls, result, last, runs>>

\* The caller commits to the local tree.
AcquireCommit ==
    /\ pc = "entered"
    /\ \E c \in ScriptCommits \ (ws.local \cup remote.derived.head) :
          /\ c[2] \notin HunksOf(ws.local)
          /\ ws' = [ws EXCEPT !.local = @ \cup {c}]
    /\ pc' = "changed"
    /\ UNCHANGED mcvars
    /\ UNCHANGED up
    /\ UNCHANGED <<remote, supportsCM, found, pub, calls, result, last, runs>>

NextAcquire ==
    \/ AcquireSprout
    \/ AcquireMainCommit
    \/ AcquireSnapshot
    \/ AcquireCommit

SpecAcquire == InitAcquire /\ [][NextAcquire]_vars

\* ------------------------------------------------- upload-pending-commits
\* The revision release() commits to the local tree.
ReleaseCommit == <<"script", 1, "fix">>

\* check_revision: with min_commit_age not None, a revision younger than
\* min_commit_age days raises RecentCommits.
check_revision(age, min_commit_age) ==
    IF age < min_commit_age THEN "RecentCommits" ELSE None

\* prepare_upload_package: the exception it raises (None: none), the value
\* it returns (None, or the changes file built and signed), what it did to
\* the local tree, and the tree's head afterwards.
prepare_upload_package(local, p, a) ==
    LET ops0 == IF p.gbp THEN <<"gbp_dch">> ELSE <<>>
        out(raised, target, ops, head) ==
            [raised |-> raised, target_changes |-> target, ops |-> ops,
             local |-> head]
    IN IF p.uploaded THEN out("NoUnuploadedChanges", None, ops0, local)
       ELSE IF p.stale THEN out("Exception", None, ops0, local)
       ELSE IF p.pending = 0 THEN out(None, None, ops0, local)
       ELSE IF a.gpg_verification /\ ~p.signed
       THEN out("Exception", None, ops0, local)
       ELSE IF check_revision(p.age, a.min_commit_age) # None
       THEN out(check_revision(p.age, a.min_commit_age), None, ops0, local)
       ELSE IF ~p.unreleased THEN out("Exception", None, ops0, local)
       ELSE LET ops1 == IF p.qa THEN Append(ops0, "commit_qa") ELSE ops0
                ops2 == Append(ops1, "release")
                head == local \cup {ReleaseCommit}
            IN IF ~p.builds
               THEN out("Exception", None, Append(ops2, "build"), head)
               ELSE out(None, "changes",
                        ops2 \o <<"build", "debsign">>, head)

\* The fields of a package that main() gets to read under these arguments.
PackageReads(p, a) ==
    LET entered == p.vcs /\ p.opens
        tested == entered /\ ~(a.autopkgtest_only /\ ~p.testsuite)
        counted == tested /\ ~p.uploaded /\ ~p.stale
        verified == counted /\ p.pending > 0
                            /\ ~(a.gpg_verification /\ ~p.signed)
        aged == verified /\ check_revision(p.age, a.min_commit_age) = None
    IN {"vcs"}
       \cup (IF p.vcs THEN {"opens"} ELSE {})
       \cup (IF entered /\ a.autopkgtest_only THEN {"testsuite"} ELSE {})
       \cup (IF tested THEN {"gbp", "uploaded"} ELSE {})
       \cup (IF tested /\ ~p.uploaded THEN {"stale"} ELSE {})
       \cup (IF counted THEN {"pending"} ELSE {})
       \cup (IF counted /\ p.pending > 0 /\ a.gpg_verification
             THEN {"signed"} ELSE {})
       \cup (IF verified /\ a.min_commit_age > 0 THEN {"age"} ELSE {})
       \cup (IF aged THEN {"unreleased"} ELSE {})
       \cup (IF aged /\ p.unreleased THEN {"qa", "builds"} ELSE {})

\* The packages the loop may meet; a field main() never reads is held at
\* one value.
Packages(a) ==
    {p \in [vcs : BOOLEAN, opens : BOOLEAN, testsuite : BOOLEAN,
            gbp : BOOLEAN, uploaded : BOOLEAN, stale : BOOLEAN,
            pending : 0..MaxPending, signed : BOOLEAN, age : 0..MaxAge,
            unreleased : BOOLEAN, qa : BOOLEAN, builds : BOOLEAN] :
        \A k \in DOMAIN p \ PackageReads(p, a) : p[k] = NoPackage[k]}

UploadArgs ==
    [dry_run : BOOLEAN, diff : BOOLEAN, autopkgtest_only : BOOLEAN,
     gpg_verification : BOOLEAN, min_commit_age : 0..MaxAge]

\* The main branch of a package, as open_branch finds it.
PackageBranch == [main |-> {Root}, derived |-> NoBranch, proposals |-> <<>>]

InitUpload ==
    /\ remote = PackageBranch
    /\ supportsCM = TRUE
    /\ pc = "idle"
    /\ found = NoFound
    /\ ws = NoWorkspace
    /\ pub = NoPub
    /\ calls = <<>>
    /\ result = NoResult
    /\ last = NoLast
    /\ runs = 0
    /\ NoMerges
    /\ \E n \in 1..MaxPackages, a \in UploadArgs :
          up = [NoUpload EXCEPT !.step = "loop", !.i = 1, !.n = n, !.args = a]

\* for package in packages: ... with Workspace(main_branch) as ws:
\* a package without a vcs location or whose branch does not open is
\* skipped with ret = 1; remote becomes the hosting site of this package.
UploadOpen ==
    /\ up.step = "loop"
    /\ up.i <= up.n
    /\ remote' = PackageBranch
    /\ \E p \in Packages(up.args) :
          LET u == [up EXCEPT !.pkg = p, !.ops = <<>>,
                              !.target_changes = None,
                              !.local = PackageBranch.main]
          IN up' = IF ~p.vcs \/ ~p.opens
                   THEN [u EXCEPT !.ret = 1, !.i = @ + 1]
                   ELSE [u EXCEPT !.step = "entered"]
    /\ UNCHANGED mcvars
    /\ UNCHANGED <<supportsCM, pc, found, ws, pub, calls, result, last, runs>>

\* From the autopkgtest test to the except clauses around
\* prepare_upload_package. The note of the skipped package reads
\* pkg_source['Testsuite'], which the test has found missing.
UploadPrepare ==
    /\ up.step = "entered"
    /\ up' = IF up.args.autopkgtest_only /\ ~up.pkg.testsuite
             THEN [up EXCEPT !.step = "aborted", !.raised = "KeyError"]
             ELSE LET r == prepare_upload_package(up.local, up.pkg, up.args)
                      u == [up EXCEPT !.ops = r.ops, !.local = r.local,
                                      !.target_changes = r.target_changes]
                  IN IF r.raised \in {"RecentCommits", "NoUnuploadedChanges"}
                     THEN [u EXCEPT !.step = "loop", !.i = @ + 1]
                     ELSE IF r.raised # None
                     THEN [u EXCEPT !.step = "aborted", !.raised = r.raised]
                     ELSE [u EXCEPT !.step = "prepared"]
    /\ UNCHANGED mcvars
    /\ UNCHANGED wvars

\* ws.push(dry_run=args.dry_run, tags=tags)
UploadPush ==
    /\ up.step = "prepared"
    /\ \E outcome \in (IF up.args.dry_run THEN {"ok"} ELSE PushOutcomes) :
          LET f == push_changes(Frame(remote, "push"), up.local, FALSE,
                                up.args.dry_run, outcome)
          IN /\ remote' = f.remote
             /\ up' = IF f.raised # None
                      THEN [up EXCEPT !.ops = @ \o f.calls,
                                      !.step = "aborted", !.raised = f.raised]
                      ELSE [up EXCEPT !.ops = @ \o f.calls,
                                      !.step = "pushed"]
    /\ UNCHANGED mcvars
    /\ UNCHANGED <<supportsCM, pc, found, ws, pub, calls, result, last, runs>>

\* if not args.dry_run: dput_changes(target_changes)
\* if args.diff: ws.show_diff(sys.stdout.buffer)
UploadDput ==
    /\ up.step = "pushed"
    /\ LET o1 == IF up.args.dry_run THEN up.ops
                 ELSE Append(up.ops,
                             IF up.target_changes = None
                             THEN "dput_changes(None)"
                             ELSE "dput_changes(changes)")
           o2 == IF up.args.diff THEN Append(o1, "show_diff") ELSE o1
       IN up' = [up EXCEPT !.ops = o2, !.step = "loop", !.i = @ + 1]
    /\ UNCHANGED mcvars
    /\ UNCHANGED wvars

\* return ret
UploadReturn ==
    /\ up.step = "loop"
    /\ up.i > up.n
    /\ up' = [up EXCEPT !.step = "done"]
    /\ UNCHANGED mcvars
    /\ UNCHANGED wvars

NextUpload ==
    \/ UploadOpen
    \/ UploadPrepare
    \/ UploadPush
    \/ UploadDput
    \/ UploadReturn

SpecUpload == InitUpload /\ [][NextUpload]_vars

\* ------------------------------------------ merge_conflicts, step by step
\* merge_conflicts saves the global list of merge_file_content hooks, empties
\* it, runs the merge preview and restores the list in a finally clause.
\* Each statement that reads or writes the global list is a step of its own.

\* The histories of a branch: one root, and at most one rewrite of a hunk.
Revisions ==
    {r \in SUBSET Commits :
        /\ Cardinality(r \cap {Root, Alien}) = 1
        /\ \A c, d \in r : c[2] = d[2] => c = d}

\* The histories the two concurrent calls are given: those of one hunk.
ThreadRevisions == {r \in Revisions : HunksOf(r) \subseteq {1}}

HookLists == {<<>>, <<"custom_merger">>}

\* A bug: UnrelatedBranches is not caught as a conflict.
PreviewResults_UnrelatedUncaught(main_rev, other_rev, active) ==
    IF cooked_conflicts(other_rev, main_rev) = {} THEN {"False"}
    ELSE IF active = <<>> THEN {"True"}
    ELSE {"True", "False"}

\* What the merge preview of main into other returns under these hooks:
\* UnrelatedBranches makes merge_conflicts return True; a custom hook, when
\* one is active, may settle a conflicting hunk itself.
PreviewResults(main_rev, other_rev, active) ==
    IF Unrelated(main_rev, other_rev) THEN {"True"}
    ELSE IF cooked_conflicts(other_rev, main_rev) = {} THEN {"False"}
    ELSE IF active = <<>> THEN {"True"}
    ELSE {"True", "False"}

\* A bug: the hooks are restored after the preview, not in a finally clause.
RestoredHooks_NotFinally(old, current, ret) ==
    IF ret = "Error" THEN current ELSE old

\* finally: Merger.hooks['merge_file_content'] = old_file_content_mergers
RestoredHooks(old, current, ret) == old

InitMerge ==
    /\ remote = [main |-> {Root}, derived |-> NoBranch, proposals |-> <<>>]
    /\ supportsCM = TRUE
    /\ pc = "idle"
    /\ found = NoFound
    /\ ws = NoWorkspace
    /\ pub = NoPub
    /\ calls = <<>>
    /\ result = NoResult
    /\ last = NoLast
    /\ runs = 0
    /\ hooks \in HookLists
    /\ installed = hooks
    /\ th = [t \in Threads |-> NoCall]
    /\ up = NoUpload

\* The call, the is_ancestor test and the fetch: the call returns False,
\* the fetch raises, or the call goes on to the hooks.
McCall(t, revs) ==
    /\ th[t].pc = "idle"
    /\ \E m \in revs, o \in revs :
          IF is_ancestor(m, o)
          THEN th' = [th EXCEPT ![t] = [@ EXCEPT !.main = m, !.other = o,
                                                !.pc = "done",
                                                !.ret = "False"]]
          ELSE \E fetched \in BOOLEAN :
                  th' = [th EXCEPT ![t] =
                            [@ EXCEPT !.main = m, !.other = o,
                                      !.pc = IF fetched THEN "save" ELSE "done",
                                      !.ret = IF fetched THEN None
                                              ELSE "Error"]]
    /\ UNCHANGED <<hooks, installed>>
    /\ UNCHANGED wvars
    /\ UNCHANGED up

\* old_file_content_mergers = Merger.hooks['merge_file_content']
McSave(t) ==
    /\ th[t].pc = "save"
    /\ th' = [th EXCEPT ![t] = [@ EXCEPT !.old = hooks, !.pc = "clear"]]
    /\ UNCHANGED <<hooks, installed>>
    /\ UNCHANGED wvars
    /\ UNCHANGED up

\* Merger.hooks['merge_file_content'] = []
McClear(t) ==
    /\ th[t].pc = "clear"
    /\ hooks' = <<>>
    /\ th' = [th EXCEPT ![t] = [@ EXCEPT !.pc = "preview"]]
    /\ UNCHANGED installed
    /\ UNCHANGED wvars
    /\ UNCHANGED up

\* Merger.from_revision_ids, make_merger and the preview: a result, or an
\* error raised while building or running the preview.
McPreview(t) ==
    /\ th[t].pc = "preview"
    /\ \E r \in PreviewResults(th[t].main, th[t].other, hooks) \cup {"Error"} :
          th' = [th EXCEPT ![t] = [@ EXCEPT !.ret = r, !.previewed = hooks,
                                            !.pc = "finally"]]
    /\ UNCHANGED <<hooks, installed>>
    /\ UNCHANGED wvars
    /\ UNCHANGED up

\* The finally clause, and the return or the re-raise.
McFinally(t) ==
    /\ th[t].pc = "finally"
    /\ hooks' = RestoredHooks(th[t].old, hooks, th[t].ret)
    /\ th' = [th EXCEPT ![t] = [@ EXCEPT !.pc = "done"]]
    /\ UNCHANGED installed
    /\ UNCHANGED wvars
    /\ UNCHANGED up

\* One call of merge_conflicts, on any pair of histories.
NextMerge ==
    \/ McCall(1, Revisions)
    \/ McSave(1)
    \/ McClear(1)
    \/ McPreview(1)
    \/ McFinally(1)

SpecMerge == InitMerge /\ [][NextMerge]_vars

\* Two threads, each calling merge_conflicts once.
NextThreads ==
    \E t \in Threads :
        \/ McCall(t, ThreadRevisions)
        \/ McSave(t)
        \/ McClear(t)
        \/ McPreview(t)
        \/ McFinally(t)

SpecThreads == InitMerge /\ [][NextThreads]_vars

\* ------------------------------------------------------------- vocabulary
Published == pc = "published"

PublishCall == Published /\ pub.call = "publish_changes"

ProposeCall == Published /\ pub.call = "propose_changes"

Called(op) == \E i \in 1..Len(calls) : calls[i] = op

DerivedPushOps == {"push_resume", "publish_derived", "push_colo_derived"}

ProposalOps == {"create_proposal", "reopen", "set_description",
                "set_commit_message", "close"}

CalledAny(ops) == \E i \in 1..Len(calls) : calls[i] \in ops

Denied == {"PermissionDenied", "LockFailed"}

OpenProposals(rem) ==
    {i \in 1..Len(rem.proposals) : rem.proposals[i].status = "open"}

\* The workspace differs from main's snapshot.
LocalChanged == ws.local # ws.main_branch_revid

\* The publish_changes call got to its propose step.
PublishProposes ==
    /\ PublishCall
    /\ LocalChanged
    /\ \/ pub.args.mode = "propose"
       \/ /\ pub.args.mode = "attempt-push"
          /\ ~pub.args.dry_run
          /\ pub.args.push \in Denied

\* The publish_changes call went on to call propose_changes.
PublishCallsPropose ==
    /\ PublishProposes
    /\ ws.resume_branch \/ pub.args.allow_create_proposal
    /\ pub.args.description \in Descriptions
    /\ pub.args.commit_message # NoCallback


\* ------------------------------------------------------------------ claims

\* The second of two runs of the workflow in propose mode with the same
\* description and commit message, nothing having changed on the hosting
\* site in between and the local head being the one the first run published.
SecondRun ==
    /\ PublishCall
    /\ WorkflowPropose
    /\ last.valid
    /\ pub.args.description = last.description
    /\ pub.args.commit_message = last.commit_message
    /\ ws.local = last.local

\* C1 as stated: the second run creates no proposal, returns is_new false,
\* calls neither set_description nor set_commit_message, and leaves the
\* hosting site as the first run left it.
C1_Original ==
    SecondRun =>
        /\ ~result.is_new
        /\ ~Called("create_proposal")
        /\ ~Called("set_description")
        /\ ~Called("set_commit_message")
        /\ remote = last.remote

\* C1 amended: the second run creates no proposal, returns the first run's
\* proposal with is_new false unless an operation of the hosting site fails,
\* never calls set_description, leaves the hosting site as the first run left
\* it, and calls set_commit_message only on a provider that stores no commit
\* messages (the call raises UnsupportedOperation and changes nothing).
C1_Idempotent ==
    SecondRun =>
        /\ ~result.is_new
        /\ ~Called("create_proposal")
        /\ ~Called("set_description")
        /\ Called("set_commit_message") => ~supportsCM
        /\ remote = last.remote
        /\ pub.args.fault = "none" =>
              /\ result.raised = None
              /\ result.proposal = RealProposal(last.proposal)

C1_Witness ==
    /\ SecondRun
    /\ supportsCM
    /\ result.raised = None
    /\ result.proposal = RealProposal(last.proposal)
    /\ pub.args.commit_message \in Messages

\* C2: in every state reached by runs of the workflow, at most one proposal
\* of the derived branch against main is open.
C2_AtMostOneOpen == Cardinality(OpenProposals(remote)) <= 1

C2_Witness ==
    /\ Len(remote.proposals) = 2
    /\ remote.proposals[1].status # "open"
    /\ remote.proposals[2].status = "open"
    /\ PublishCall
    /\ Called("create_proposal")


\* propose_changes was called, for real, with the derived branch and the open
\* proposal that find_existing_proposed returned.
ResumesFound ==
    /\ Published
    /\ found.resume_branch
    /\ found.proposal # 0
    /\ \/ /\ ProposeCall
          /\ pub.args.resume_branch
          /\ pub.args.resume_proposal = found.proposal
          /\ ~pub.args.dry_run
       \/ /\ PublishCallsPropose
          /\ ws.resume_branch
          /\ ~pub.args.dry_run

\* C3: when the provider holds the derived branch with an open proposal,
\* find_existing_proposed returns that branch and an open proposal; a
\* propose_changes call with them never calls publish_derived or
\* create_proposal, and unless it raises it has pushed the local branch to
\* the derived branch and returns that proposal with is_new false.
C3_ResumeCorrectness ==
    /\ (pc = "found" /\ remote.derived.exists /\ OpenProposals(remote) # {}) =>
          /\ found.resume_branch
          /\ found.proposal \in OpenProposals(remote)
    /\ ResumesFound =>
          /\ ~Called("publish_derived")
          /\ ~Called("create_proposal")
          /\ result.raised = None =>
                /\ Called("push_resume")
                /\ remote.derived.head = ws.local
                /\ result.proposal = RealProposal(found.proposal)
                /\ ~result.is_new
                /\ Len(remote.proposals) = Len(pub.pre.proposals)

C3_Witness ==
    /\ ResumesFound
    /\ result.raised = None
    /\ remote.derived.head # pub.pre.derived.head

\* C4: when acquisition is given a resume branch that conflicts with main,
\* it returns with the local head at main's snapshot head, no resume branch
\* and refreshed set; the workspace's head then always descends from main's
\* snapshot head and holds no commit of the discarded branch, and whatever
\* branch a publication of this workspace moves, it moves to that head.
C4_ConflictRestart ==
    /\ (pc = "acquired" /\ ResumeBranchArg(found)
           /\ merge_conflicts(remote.main, remote.derived.head)) =>
          /\ ws.refreshed
          /\ ws.local = ws.main_branch_revid
    /\ (ws.alive /\ ws.refreshed) =>
          /\ ~ws.resume_branch
          /\ ws.discarded # {}
          /\ is_ancestor(ws.main_branch_revid, ws.local)
          /\ ws.local \cap ws.discarded = {}
          /\ Published =>
                /\ remote.main # pub.pre.main => remote.main = ws.local
                /\ remote.derived # pub.pre.derived =>
                      remote.derived.head = ws.local

C4_Witness ==
    /\ Published
    /\ ws.refreshed
    /\ remote.derived # pub.pre.derived
    /\ LocalChanged

\* propose_changes was called with allow_empty false on a local branch whose
\* merge into main changes nothing.
EmptyProposal ==
    /\ \/ ProposeCall /\ ~pub.args.allow_empty
       \/ PublishCallsPropose
    /\ ~Unrelated(pub.pre.main, ws.local)
    /\ iter_changes(pub.pre.main, ws.local) = {}

\* C5: propose_changes with allow_empty false on a local branch whose merge
\* into main is empty raises EmptyMergeProposal, having pushed no branch and
\* created, reopened or updated no proposal.
C5_EmptyProposalRejected ==
    EmptyProposal =>
        /\ result.raised = "EmptyMergeProposal"
        /\ ~CalledAny(DerivedPushOps \cup ProposalOps)
        /\ remote = pub.pre

C5_Witness ==
    /\ EmptyProposal
    /\ PublishCallsPropose
    /\ LocalChanged
    /\ ~pub.args.dry_run
    /\ ws.resume_branch


\* publish_changes was called in attempt-push mode, for real, on a workspace
\* with changes since main: it tried the direct push.
AttemptPush ==
    /\ PublishCall
    /\ pub.args.mode = "attempt-push"
    /\ ~pub.args.dry_run
    /\ LocalChanged

\* The call went on to the propose step: it runs in mode 'propose'.
WentOnToPropose == result.mode = "propose"

\* C6 as stated: attempt-push goes on to the propose step if and only if the
\* direct push failed with permission denial.
C6_Original ==
    AttemptPush => (WentOnToPropose <=> pub.args.push = "PermissionDenied")

\* C6 amended: attempt-push goes on to the propose step if and only if the
\* direct push failed with permission denial or with a lock failure, which
\* push_result reports as permission denial; any other push failure reaches
\* the caller without proposing, and a successful push returns without
\* proposing.
C6_FallbackOnlyOnDenial ==
    AttemptPush =>
        /\ WentOnToPropose <=> pub.args.push \in Denied
        /\ ~WentOnToPropose =>
              /\ calls \in {<<"push_main">>, <<"push_main", "push_colo_main">>}
              /\ result.mode = "attempt-push"
              /\ result.proposal = NoProposal
              /\ remote.derived = pub.pre.derived
              /\ remote.proposals = pub.pre.proposals
        /\ pub.args.push = "TransportError" => result.raised = "TransportError"
        /\ (pub.args.push = "ok" /\ ~is_ancestor(pub.pre.main, ws.local)) =>
              result.raised = "DivergedBranches"
        /\ (pub.args.push = "ok" /\ is_ancestor(pub.pre.main, ws.local)) =>
              /\ result.raised = None
              /\ remote.main = ws.local

C6_Witness ==
    /\ AttemptPush
    /\ pub.args.push = "LockFailed"
    /\ result.raised = None
    /\ result.proposal.kind = "real"

\* C7: attempt-push with changes since main, a description, proposal
\* creation allowed and the direct push denied gets to the propose step, and
\* a result it returns has mode 'propose' and a proposal.
C7_DeniedPushProposes ==
    (/\ AttemptPush
     /\ pub.args.push \in Denied
     /\ pub.args.description \in Descriptions
     /\ pub.args.allow_create_proposal) =>
        /\ Called("get_proposal_description(None)")
              \/ Called("get_proposal_description(existing)")
        /\ result.raised = "PermissionDenied" =>
              pub.args.fault = "create_denied"
        /\ result.raised = None =>
              /\ result.mode = "propose"
              /\ result.proposal.kind # "none"

C7_Witness ==
    /\ AttemptPush
    /\ pub.args.push = "PermissionDenied"
    /\ result.raised = None
    /\ result.mode = "propose"
    /\ result.proposal.kind = "real"
    /\ result.is_new

\* C8: mode push with the direct push denied raises PermissionDenied to the
\* caller, having pushed no derived branch and touched no proposal.
C8_PushDeniedPropagates ==
    (/\ PublishCall
     /\ pub.args.mode = "push"
     /\ ~pub.args.dry_run
     /\ LocalChanged
     /\ pub.args.push \in Denied) =>
        /\ result.raised = "PermissionDenied"
        /\ ~CalledAny(DerivedPushOps \cup ProposalOps)
        /\ remote = pub.pre

C8_Witness ==
    /\ PublishCall
    /\ pub.args.mode = "push"
    /\ pub.args.push = "PermissionDenied"
    /\ result.raised = "PermissionDenied"
    /\ found.proposal # 0

\* C9: mode push with changes since main and a direct push that succeeds
\* returns mode 'push' and no proposal, main's head being the local head,
\* without calling the description callback or any proposal operation.
C9_PushSucceeds ==
    (/\ PublishCall
     /\ pub.args.mode = "push"
     /\ ~pub.args.dry_run
     /\ LocalChanged
     /\ pub.args.push = "ok"
     /\ is_ancestor(pub.pre.main, ws.local)) =>
        /\ result = [raised |-> None, mode |-> "push",
                     proposal |-> NoProposal, is_new |-> FALSE]
        /\ calls \in {<<"push_main">>, <<"push_main", "push_colo_main">>}
        /\ remote = [pub.pre EXCEPT !.main = ws.local]

C9_Witness ==
    /\ PublishCall
    /\ pub.args.mode = "push"
    /\ result.raised = None
    /\ remote.main # pub.pre.main
    /\ found.proposal # 0

\* C10: in every supported mode, publish_changes on a workspace without
\* changes since main pushes nothing and creates nothing, closes the
\* existing proposal when it is given one, and returns the requested mode
\* with no proposal.
C10_NoChangesClosesProposal ==
    (/\ PublishCall
     /\ pub.args.mode \in SUPPORTED_MODES
     /\ ~LocalChanged) =>
        /\ result = [raised |-> None, mode |-> pub.args.mode,
                     proposal |-> NoProposal, is_new |-> FALSE]
        /\ calls = IF pub.args.existing_proposal = 0 THEN <<>>
                   ELSE <<"close">>
        /\ remote.main = pub.pre.main
        /\ remote.derived = pub.pre.derived
        /\ pub.args.existing_proposal = 0 => remote.proposals = pub.pre.proposals
        /\ pub.args.existing_proposal # 0 =>
              remote.proposals =
                  [pub.pre.proposals
                       EXCEPT ![pub.args.existing_proposal].status = "closed"]

C10_Witness ==
    /\ PublishCall
    /\ pub.args.mode = "propose"
    /\ ~LocalChanged
    /\ pub.args.existing_proposal # 0
    /\ pub.pre.proposals[pub.args.existing_proposal].status = "open"
    /\ remote.proposals[pub.args.existing_proposal].status = "closed"

\* C11: publish_changes with a mode outside push, attempt-push, propose and
\* push-derived raises ValueError before any other effect: it calls no
\* callback and no remote operation, and the hosting site is as it was.
C11_InvalidModeRejected ==
    (/\ PublishCall
     /\ pub.args.mode \notin {"push", "attempt-push", "propose",
                              "push-derived"}) =>
        /\ result = [raised |-> "ValueError", mode |-> pub.args.mode,
                     proposal |-> NoProposal, is_new |-> FALSE]
        /\ calls = <<>>
        /\ remote = pub.pre

C11_Witness ==
    /\ PublishCall
    /\ pub.args.mode = "bogus"
    /\ result.raised = "ValueError"
    /\ ~LocalChanged
    /\ pub.args.existing_proposal # 0
    /\ remote.proposals[pub.args.existing_proposal].status = "open"

\* C12: once the scope of a Workspace is over, by a return, by an error
\* raised in the scope or by an error raised in __enter__ after the clone
\* was made, the clone has been released unless the caller took the release
\* callback with defer_destroy.
C12_ReleasedOnEveryExit ==
    (pc = "left" /\ ws.clone # "none" /\ ~ws.handed) => ws.clone = "released"

\* C13: once defer_destroy has handed out the release callback the workspace
\* never calls it, before or after: a scope exit after defer_destroy leaves
\* the clone alone, and in every sequence of defer_destroy and __exit__
\* calls the workspace calls the release callback at most once.
C13_DeferDestroy ==
    /\ ws.releases <= 1
    /\ ws.handed => (ws.releases = 0 /\ ~ws.destroy)
    /\ (ws.releases = 1 /\ ws.exits > 0) => ws.clone = "released"

C13_Witness ==
    /\ pc = "left"
    /\ ws.refreshed
    /\ ws.handed
    /\ ws.exits = 2
    /\ ws.clone = "live"

\* C14: publish_changes with dry_run true, in any supported mode and any
\* workspace state, makes no mutating remote operation: no push to main, no
\* publication of the derived branch, and no create, close, reopen or update
\* of a proposal of the hosting site.
C14_DryRunMutatesNothing ==
    (/\ PublishCall
     /\ pub.args.mode \in SUPPORTED_MODES
     /\ pub.args.dry_run) =>
        /\ ~CalledAny({"push_main", "push_colo_main"} \cup DerivedPushOps
                          \cup ProposalOps)
        /\ remote = pub.pre

\* publish_changes tried the direct push of a local head that main's head is
\* not an ancestor of.
DivergedPush ==
    /\ PublishCall
    /\ pub.args.mode \in {"push", "attempt-push"}
    /\ ~pub.args.dry_run
    /\ LocalChanged
    /\ ~is_ancestor(pub.pre.main, ws.local)

\* C15 as stated: when main's head is not an ancestor of the local head the
\* direct push fails, the failure reaches the caller and main's head is
\* unchanged.
C15_Original ==
    DivergedPush =>
        /\ result.raised # None
        /\ remote.main = pub.pre.main

\* C15 amended: a publication never moves main's head to anything but a
\* descendant; when main's head is not an ancestor of the local head the
\* direct push fails and main's head is unchanged, and the failure
\* (DivergedBranches, or the transport's error) reaches the caller with
\* nothing else done, except that attempt-push goes on to the propose step
\* when the push was refused with a permission denial or a lock failure.
C15_NoOverwriteOfMain ==
    /\ Published => is_ancestor(pub.pre.main, remote.main)
    /\ DivergedPush =>
          /\ remote.main = pub.pre.main
          /\ ~Called("push_colo_main")
          /\ IF pub.args.mode = "attempt-push" /\ pub.args.push \in Denied
             THEN result.mode = "propose"
             ELSE /\ result.raised = IF pub.args.push = "ok"
                                     THEN "DivergedBranches"
                                     ELSE PushError(pub.args.push)
                  /\ result.mode = pub.args.mode
                  /\ calls = <<"push_main">>
                  /\ remote = pub.pre

C15_Witness ==
    /\ DivergedPush
    /\ pub.args.push = "ok"
    /\ result.raised = "DivergedBranches"
    /\ ~merge_conflicts(pub.pre.main, ws.local)

\* A run of the workflow in propose mode, with the overwrite flag that
\* find_existing_proposed returned, on a resume branch that main's head is
\* not an ancestor of: the branch has diverged from main or conflicts with it.
DivergedResume ==
    /\ PublishCall
    /\ WorkflowPropose
    /\ found.resume_branch
    /\ ~is_ancestor(pub.pre.main, pub.pre.derived.head)

\* C16: such a run never fails with a divergence error: when the resume
\* branch conflicts with main the run restarts from main, and the
\* publication completes unless something other than divergence fails.
C16_DivergedResumeNeverFails ==
    DivergedResume =>
        /\ merge_conflicts(pub.pre.main, pub.pre.derived.head) => ws.refreshed
        /\ result.raised # "DivergedBranches"
        /\ (/\ pub.args.fault = "none"
            /\ pub.args.allow_create_proposal
            /\ pub.args.description \in Descriptions
            /\ pub.args.commit_message # NoCallback
            /\ iter_changes(pub.pre.main, ws.local) # {}) =>
               result.raised = None

\* The call of thread 1 has returned a value.
Returned == th[1].pc = "done" /\ th[1].ret \in {"True", "False"}

\* Main and the candidate both rewrote hunk h since their common history,
\* to different texts.
ConflictingHunk(h) ==
    LET m == th[1].main
        o == th[1].other
    IN \E c \in m \ o, d \in o \ m :
          c[2] = h /\ d[2] = h /\ c[3] # d[3]

\* C17: merge_conflicts returns false when main's head is an ancestor of the
\* candidate's head or the three-way merge of main into the candidate is
\* clean, true when the two histories have no common ancestor, and otherwise
\* true exactly when the merge preview has conflicts; the installed hooks do
\* not change the value.
C17_MergeConflicts ==
    Returned =>
        LET m == th[1].main
            o == th[1].other
            none == m \cap o = {}
            conflicts == \E h \in Hunks : ConflictingHunk(h)
        IN /\ is_ancestor(m, o) => th[1].ret = "False"
           /\ (~none /\ ~conflicts) => th[1].ret = "False"
           /\ none => th[1].ret = "True"
           /\ (~is_ancestor(m, o) /\ ~none) =>
                 (th[1].ret = "True" <=> conflicts)
           /\ th[1].ret = "True" <=> merge_conflicts(m, o)

C17_Witness ==
    /\ Returned
    /\ th[1].ret = "False"
    /\ ~is_ancestor(th[1].main, th[1].other)
    /\ ~is_ancestor(th[1].other, th[1].main)
    /\ installed # <<>>

\* C18: after a single call of merge_conflicts, whether it returned without
\* a preview, returned the preview's result or raised an error, the global
\* list of merge_file_content hooks is what it was before the call; while
\* the preview runs the list is empty.
C18_HooksRestored ==
    /\ th[1].pc = "done" => hooks = installed
    /\ th[1].pc = "preview" => hooks = <<>>
    /\ th[1].pc = "finally" => (hooks = <<>> /\ th[1].previewed = <<>>)

C18_Witness ==
    /\ th[1].pc = "done"
    /\ th[1].ret = "Error"
    /\ th[1].previewed = <<>>
    /\ installed # <<>>
    /\ hooks = installed

\* C19: once two concurrent merge_conflicts calls have both returned, the
\* global list of merge_file_content hooks is what it was before either
\* started.
C19_ConcurrentHooksRestored ==
    (\A t \in Threads : th[t].pc = "done") => hooks = installed

\* C20: publish_changes that gets to the propose step and is given no
\* description by the description callback (None or the empty string)
\* raises MergeProposalDescriptionMissing, having pushed no derived branch
\* and created, reopened or updated no proposal.
C20_DescriptionMissing ==
    (/\ PublishProposes
     /\ ws.resume_branch \/ pub.args.allow_create_proposal
     /\ pub.args.description \in {None, ""}) =>
        /\ result.raised = "MergeProposalDescriptionMissing"
        /\ result.proposal = NoProposal
        /\ ~CalledAny(DerivedPushOps \cup ProposalOps)
        /\ remote = pub.pre

C20_Witness ==
    /\ PublishProposes
    /\ pub.args.mode = "propose"
    /\ ~pub.args.dry_run
    /\ pub.args.description = ""
    /\ ws.resume_branch
    /\ pub.args.existing_proposal # 0
    /\ pub.args.commit_message = NoCallback
    /\ result.raised = "MergeProposalDescriptionMissing"

\* find_existing_proposed has returned.
Found == pc = "found"

Statuses == {remote.proposals[i].status : i \in 1..Len(remote.proposals)}

\* C21: when the provider has the derived branch and lists at least one
\* proposal that is neither closed nor merged, find_existing_proposed
\* returns that branch, overwrite false and the first such proposal of the
\* listing, wherever it stands among closed and merged ones.
C21_ResumeOpen ==
    (Found /\ remote.derived.exists /\ "open" \in Statuses) =>
        /\ found.resume_branch
        /\ found.overwrite = "False"
        /\ found.proposal \in 1..Len(remote.proposals)
        /\ remote.proposals[found.proposal].status = "open"
        /\ \A j \in 1..(found.proposal - 1) :
              remote.proposals[j].status # "open"

C21_Witness ==
    /\ Found
    /\ remote.derived.exists
    /\ Len(remote.proposals) = 3
    /\ remote.proposals[1].status = "merged"
    /\ remote.proposals[2].status = "open"
    /\ remote.proposals[3].status = "closed"
    /\ found.proposal = 2

\* C22: when the derived branch exists and every proposal listed is merged,
\* there being at least one, find_existing_proposed returns no resume
\* branch, overwrite true and no proposal.
C22_ResumeStaleMerged ==
    (Found /\ remote.derived.exists /\ Statuses = {"merged"}) =>
        /\ ~found.resume_branch
        /\ found.overwrite = "True"
        /\ found.proposal = 0

C22_Witness ==
    /\ Found
    /\ remote.derived.exists
    /\ Len(remote.proposals) = 2
    /\ Statuses = {"merged"}
    /\ found.overwrite = "True"

\* C23: when the derived branch exists and no proposal is listed,
\* find_existing_proposed returns no resume branch and no proposal, with
\* overwrite true if overwrite_unrelated is set and false otherwise.
C23_ResumeUnrelated ==
    (Found /\ remote.derived.exists /\ remote.proposals = <<>>) =>
        /\ ~found.resume_branch
        /\ found.proposal = 0
        /\ found.overwrite = IF found.overwrite_unrelated THEN "True"
                             ELSE "False"

C23_Witness ==
    /\ Found
    /\ remote.derived.exists
    /\ remote.proposals = <<>>
    /\ found.overwrite_unrelated
    /\ found.overwrite = "True"

\* C24: when the provider has no derived branch, find_existing_proposed
\* returns no resume branch, no overwrite and no proposal, and does not
\* list proposals.
C24_NoResume ==
    (Found /\ ~remote.derived.exists) =>
        /\ ~found.resume_branch
        /\ found.overwrite = None
        /\ found.proposal = 0
        /\ ~found.listed

C24_Witness ==
    /\ Found
    /\ ~remote.derived.exists
    /\ "open" \in Statuses
    /\ found.overwrite = None

\* C25: whatever cache and resume branches it is given besides main,
\* Workspace acquisition makes the local clone from exactly one branch: the
\* cache if there is one, else the resume branch if there is one, else main.
C25_SeedPriority ==
    (pc = "entered") =>
        /\ ws.seed \in {"cache", "resume", "main"}
        /\ ws.given.cached => ws.seed = "cache"
        /\ (~ws.given.cached /\ ws.given.resume) => ws.seed = "resume"
        /\ (~ws.given.cached /\ ~ws.given.resume) => ws.seed = "main"

C25_Witness ==
    /\ pc = "entered"
    /\ ws.given.cached
    /\ ws.given.resume
    /\ ws.seed = "cache"
    /\ ws.refreshed

\* publish_changes was called in mode push-derived on a workspace with
\* changes since main.
PushDerived ==
    /\ PublishCall
    /\ pub.args.mode = "push-derived"
    /\ LocalChanged

\* The derived branch can take the local head without being overwritten.
DerivedTakesLocal ==
    ~pub.pre.derived.exists \/ is_ancestor(pub.pre.derived.head, ws.local)

\* C26: publish_changes in mode push-derived with changes since main
\* publishes the local branch to the derived branch exactly once, with the
\* caller's overwrite flag, pushes nothing to main, creates and updates no
\* proposal and calls no callback; unless the publication fails it returns
\* mode 'push-derived' and no proposal.
C26_PushDerived ==
    PushDerived =>
        /\ calls = <<"publish_derived">>
        /\ remote.main = pub.pre.main
        /\ remote.proposals = pub.pre.proposals
        /\ result.mode = "push-derived"
        /\ result.proposal = NoProposal
        /\ ~result.is_new
        /\ result.raised = None => remote.derived.head = ws.local
        /\ result.raised # None => remote.derived = pub.pre.derived
        /\ pub.args.fault = "none" =>
              result.raised =
                  IF DerivedTakesLocal \/ pub.args.overwrite_existing
                  THEN None ELSE "DivergedBranches"

C26_Witness ==
    /\ PushDerived
    /\ ~DerivedTakesLocal
    /\ pub.args.overwrite_existing
    /\ result.raised = None
    /\ remote.derived.head = ws.local
    /\ found.proposal # 0

\* publish_changes got to the propose step with a description, and with a
\* resume branch or leave to create a proposal, but was given no
\* commit-message callback.
ProposesWithoutMessageCallback ==
    /\ PublishProposes
    /\ ws.resume_branch \/ pub.args.allow_create_proposal
    /\ pub.args.description \in Descriptions
    /\ pub.args.commit_message = NoCallback

\* C27: such a call still goes on to propose_changes, with no commit
\* message: it does not fail for want of the callback, and the result it
\* returns carries the proposal.
C27_NoMessageCallback ==
    ProposesWithoutMessageCallback =>
        /\ result.raised # "UnboundLocalError"
        /\ result.raised = None => result.proposal.kind # "none"

\* publish_changes was called in propose mode, for real, on a workspace that
\* resumes an existing proposal and has changes since main but none since
\* it was acquired.
RepublishesResume ==
    /\ PublishCall
    /\ pub.args.mode = "propose"
    /\ ~pub.args.dry_run
    /\ LocalChanged
    /\ ~changes_since_resume(ws)
    /\ ws.resume_branch
    /\ pub.args.existing_proposal # 0

\* C28: such a call does not skip publication: it calls the description
\* callback and goes on to propose_changes, which, unless the merge would
\* be empty or an operation of the hosting site fails, returns the resumed
\* proposal with the new description and commit message set on it when
\* they differ.
C28_RepublishWithoutNewRevisions ==
    RepublishesResume =>
        LET ep == pub.args.existing_proposal IN
        /\ Called("get_proposal_description(existing)")
        /\ ~Called("close")
        /\ (/\ pub.args.description \in Descriptions
            /\ pub.args.commit_message # NoCallback
            /\ pub.args.fault = "none"
            /\ iter_changes(pub.pre.main, ws.local) # {}) =>
               /\ result = [raised |-> None, mode |-> "propose",
                            proposal |-> RealProposal(ep), is_new |-> FALSE]
               /\ Called("push_resume")
               /\ remote.proposals[ep].description = pub.args.description
               /\ Called("set_description") <=>
                     pub.pre.proposals[ep].description # pub.args.description
               /\ Called("set_commit_message") <=>
                     pub.pre.proposals[ep].commit_message #
                         pub.args.commit_message
               /\ supportsCM => remote.proposals[ep].commit_message =
                                    pub.args.commit_message

C28_Witness ==
    /\ RepublishesResume
    /\ result.raised = None
    /\ pub.pre.proposals[pub.args.existing_proposal].description = "d1"
    /\ remote.proposals[pub.args.existing_proposal].description = "d2"
    /\ Called("set_description")

\* C29: publish_changes that gets to the propose step without a resume
\* branch and is not allowed to create a proposal returns a result with no
\* proposal, having called no callback, pushed no derived branch and
\* created no proposal.
C29_CreationDisallowed ==
    (/\ PublishProposes
     /\ ~ws.resume_branch
     /\ ~pub.args.allow_create_proposal) =>
        /\ result = [raised |-> None, mode |-> "propose",
                     proposal |-> NoProposal, is_new |-> FALSE]
        /\ calls = IF pub.args.mode = "attempt-push" THEN <<"push_main">>
                   ELSE <<>>
        /\ remote = pub.pre

C29_Witness ==
    /\ PublishProposes
    /\ ~ws.resume_branch
    /\ ~pub.args.allow_create_proposal
    /\ pub.args.mode = "propose"
    /\ ~pub.args.dry_run
    /\ ws.refreshed
    /\ pub.args.existing_proposal # 0
    /\ result.raised = None

\* C30: the description callback and the commit-message callback are handed
\* the existing proposal exactly when the workspace still has a resume
\* branch when publish_changes runs; without one, whether none was given or
\* it was discarded on a restart, they are handed no proposal.
C30_CallbacksGetExistingProposal ==
    PublishCall =>
        /\ Called("get_proposal_description(existing)") =>
              (ws.resume_branch /\ pub.args.existing_proposal # 0)
        /\ Called("get_proposal_commit_message(existing)") =>
              (ws.resume_branch /\ pub.args.existing_proposal # 0)
        /\ Called("get_proposal_description(None)") => ~ws.resume_branch
        /\ Called("get_proposal_commit_message(None)") => ~ws.resume_branch
        /\ (PublishProposes
               /\ (ws.resume_branch \/ pub.args.allow_create_proposal)) =>
              /\ Called("get_proposal_description(existing)")
                    <=> ws.resume_branch
              /\ Called("get_proposal_description(None)")
                    <=> ~ws.resume_branch
              /\ pub.args.commit_message # NoCallback =>
                    /\ Called("get_proposal_commit_message(existing)")
                          <=> ws.resume_branch
                    /\ Called("get_proposal_commit_message(None)")
                          <=> ~ws.resume_branch

C30_Witness ==
    /\ PublishCall
    /\ ws.refreshed
    /\ pub.args.existing_proposal # 0
    /\ Called("get_proposal_description(None)")
    /\ Called("get_proposal_commit_message(None)")

\* propose_changes was called, for real, with a resume proposal that was
\* closed, and got past check_proposal_diff and the push.
ReopensClosed ==
    /\ ProposeCall
    /\ ~pub.args.dry_run
    /\ pub.args.resume_proposal # 0
    /\ pub.pre.proposals[pub.args.resume_proposal].status = "closed"
    /\ result.raised \notin {"EmptyMergeProposal", "TransportError",
                             "DivergedBranches"}

\* C31: such a call attempts to reopen the proposal; when reopening
\* succeeds the proposal is open again and is returned, updated, with is_new
\* false; when reopening fails or is unsupported the proposal stays closed
\* and a newly created proposal is returned with is_new true.
C31_ReopenOrCreate ==
    ReopensClosed =>
        LET rp == pub.args.resume_proposal IN
        /\ Called("reopen")
        /\ IF pub.args.fault \in {"reopen_failed", "reopen_unsupported"}
           THEN /\ remote.proposals[rp].status = "closed"
                /\ Called("create_proposal")
                /\ Len(remote.proposals) = Len(pub.pre.proposals) + 1
                /\ result = [raised |-> None, mode |-> "propose",
                             proposal |-> RealProposal(Len(remote.proposals)),
                             is_new |-> TRUE]
           ELSE /\ remote.proposals[rp].status = "open"
                /\ ~Called("create_proposal")
                /\ remote.proposals[rp].description = pub.args.mp_description
                /\ result = [raised |-> None, mode |-> "propose",
                             proposal |-> RealProposal(rp), is_new |-> FALSE]

\* The resume proposal, the description and the commit message that the
\* propose_changes call just made was given, directly or by publish_changes.
ResumeProposalArg ==
    IF pub.call = "propose_changes" THEN pub.args.resume_proposal
    ELSE pub.args.existing_proposal

DescriptionArg ==
    IF pub.call = "propose_changes" THEN pub.args.mp_description
    ELSE pub.args.description

\* propose_changes was called, for real, with a resume proposal that is open
\* or that it reopened, and returned.
UpdatesProposal ==
    /\ ProposeCall \/ PublishCallsPropose
    /\ ~pub.args.dry_run
    /\ ResumeProposalArg # 0
    /\ pub.args.fault # "reopen_failed"
    /\ result.raised = None

\* C32: such a call has called set_description exactly when the proposal's
\* description differed from the new one and set_commit_message exactly when
\* its commit message differed from the new one, and returns that proposal,
\* carrying the new description, with is_new false.
C32_SettersOnlyOnDifference ==
    UpdatesProposal =>
        LET rp == ResumeProposalArg IN
        /\ Called("set_description") <=>
              pub.pre.proposals[rp].description # DescriptionArg
        /\ Called("set_commit_message") <=>
              pub.pre.proposals[rp].commit_message # pub.args.commit_message
        /\ remote.proposals[rp].description = DescriptionArg
        /\ supportsCM =>
              remote.proposals[rp].commit_message = pub.args.commit_message
        /\ ~Called("create_proposal")
        /\ result.proposal = RealProposal(rp)
        /\ ~result.is_new

C32_Witness ==
    /\ UpdatesProposal
    /\ ProposeCall
    /\ Called("set_commit_message")
    /\ ~Called("set_description")
    /\ supportsCM
    /\ pub.pre.proposals[ResumeProposalArg].commit_message = None
    /\ remote.proposals[ResumeProposalArg].commit_message = "c1"

\* propose_changes was called with dry_run true.
DryRunPropose ==
    /\ ProposeCall \/ PublishCallsPropose
    /\ pub.args.dry_run

\* C33: such a call makes no push, publication, creation, reopening or
\* update on the hosting site, which it leaves as it was; when it returns,
\* without a resume proposal it returns an in-memory proposal with is_new
\* true, and with one an in-memory copy of it that carries the new
\* description, with is_new false.
C33_DryRunPropose ==
    DryRunPropose =>
        /\ ~CalledAny(DerivedPushOps \cup ProposalOps)
        /\ remote = pub.pre
        /\ result.raised = None =>
              /\ result.proposal.kind = "dryrun"
              /\ result.proposal.description = DescriptionArg
              /\ result.proposal.commit_message = pub.args.commit_message
              /\ result.proposal.idx = ResumeProposalArg
              /\ result.is_new <=> ResumeProposalArg = 0

C33_Witness ==
    /\ DryRunPropose
    /\ ProposeCall
    /\ ResumeProposalArg # 0
    /\ pub.pre.proposals[ResumeProposalArg].status = "closed"
    /\ pub.pre.proposals[ResumeProposalArg].description # DescriptionArg
    /\ result.raised = None
    /\ result.proposal.description = DescriptionArg
    /\ ~result.is_new

\* propose_changes was called with dry_run false.
RealPropose ==
    /\ ProposeCall \/ PublishCallsPropose
    /\ ~pub.args.dry_run

\* Whether that call was given a resume branch.
ResumesBranch ==
    IF pub.call = "propose_changes" THEN pub.args.resume_branch
    ELSE ws.resume_branch

\* The positions in the call's operations of the push of the derived branch
\* and of the operations on proposals.
PushPositions ==
    {i \in 1..Len(calls) : calls[i] \in {"push_resume", "publish_derived"}}

ProposalPositions == {i \in 1..Len(calls) : calls[i] \in ProposalOps}

\* C34: in such a call every creation, reopening or update of a proposal
\* comes after the push of the derived branch (to the resume branch when
\* resuming, through publish_derived otherwise) and of the colocated
\* branches, the derived branch then being at the local head; when the push
\* fails no operation on a proposal is made.
C34_PushBeforeProposal ==
    RealPropose =>
        /\ Called("push_resume") => ResumesBranch
        /\ Called("publish_derived") => ~ResumesBranch
        /\ Cardinality(PushPositions) <= 1
        /\ \A i \in ProposalPositions :
              /\ \E j \in PushPositions : j < i
              /\ ws.colo => \E j \in 1..(i - 1) :
                                calls[j] = "push_colo_derived"
              /\ remote.derived = [exists |-> TRUE, head |-> ws.local]
        /\ result.raised \in {"TransportError", "DivergedBranches"} =>
              /\ ProposalPositions = {}
              /\ remote.proposals = pub.pre.proposals
              /\ remote.derived = pub.pre.derived

C34_Witness ==
    /\ RealPropose
    /\ ResumesBranch
    /\ ws.colo
    /\ Called("reopen")
    /\ Called("set_description")
    /\ result.raised = None
    /\ remote.derived.head # pub.pre.derived.head

\* publish_changes was called in propose mode, for real, on a workspace that
\* discarded its resume branch on a conflict, with the open proposal that
\* find_existing_proposed returned, leave to create proposals, a description
\* and a commit message, changes to propose and no failure of the hosting
\* site.
RestartedWithProposal ==
    /\ PublishCallsPropose
    /\ pub.args.mode = "propose"
    /\ ~pub.args.dry_run
    /\ ws.refreshed
    /\ pub.args.existing_proposal # 0
    /\ pub.args.allow_create_proposal
    /\ pub.args.fault = "none"
    /\ iter_changes(pub.pre.main, ws.local) # {}

\* C35: such a call updates the proposal it was given and returns it with
\* is_new false; it creates no second proposal of the derived branch.
C35_RestartUpdatesProposal ==
    RestartedWithProposal =>
        LET ep == pub.args.existing_proposal IN
        /\ ~Called("create_proposal")
        /\ Len(remote.proposals) = Len(pub.pre.proposals)
        /\ result = [raised |-> None, mode |-> "propose",
                     proposal |-> RealProposal(ep), is_new |-> FALSE]
        /\ remote.proposals[ep].description = pub.args.description
        /\ remote.derived.head = ws.local

ClosedUnmerged ==
    /\ Found
    /\ remote.derived.exists
    /\ "closed" \in Statuses
    /\ "open" \notin Statuses

FreshWorkspace ==
    /\ pc = "entered"
    /\ ~ws.given.cached
    /\ ~ws.given.resume

\* C38: for such a workspace changes_since_main() and changes_since_resume()
\* are both false, whatever was committed to main while the workspace was
\* acquired.
C38_FreshWorkspaceUnchanged ==
    FreshWorkspace =>
        /\ ~changes_since_main(ws)
        /\ ~changes_since_resume(ws)

\* publish_changes returned a result.
PublishReturned ==
    /\ PublishCall
    /\ result.raised = None

\* C39: every result publish_changes returns has a supported mode, which is
\* the requested one unless attempt-push met a refused push and went on as
\* propose; it carries a proposal only when its mode is propose, and is_new
\* only when it carries a proposal.
C39_ResultConsistent ==
    PublishReturned =>
        /\ result.mode \in SUPPORTED_MODES
        /\ \/ result.mode = pub.args.mode
           \/ /\ pub.args.mode = "attempt-push"
              /\ result.mode = "propose"
              /\ pub.args.push \in Denied
              /\ Called("push_main")
        /\ result.proposal.kind # "none" => result.mode = "propose"
        /\ result.is_new => result.proposal.kind # "none"

C39_Witness ==
    /\ PublishReturned
    /\ pub.args.mode = "attempt-push"
    /\ result.mode = "propose"
    /\ result.proposal.kind = "real"
    /\ result.is_new

\* What was done for the package the upload loop is at.
UploadOps == {up.ops[k] : k \in 1..Len(up.ops)}

UploadPublishes ==
    UploadOps \cap {"push_main", "dput_changes(changes)",
                    "dput_changes(None)"} # {}

\* C40: in the upload loop a package is pushed to its main branch and
\* handed to dput_changes only after prepare_upload_package has built and
\* signed a changes file; neither is done for a package whose version is
\* already uploaded, that has no revision since the last uploaded release,
\* or whose revisions are too recent.
C40_UploadOnlyPrepared ==
    /\ UploadPublishes =>
          /\ up.target_changes = "changes"
          /\ \E k \in 1..Len(up.ops) :
                /\ up.ops[k] = "debsign"
                /\ \A j \in 1..k : up.ops[j] \notin {"push_main",
                                                     "dput_changes(changes)",
                                                     "dput_changes(None)"}
    /\ (\/ up.pkg.uploaded
        \/ up.pkg.pending = 0
        \/ check_revision(up.pkg.age, up.args.min_commit_age) # None) =>
          ~UploadPublishes

====
